---- MODULE Spec2Model ----
(***************************************************************************)
(* Model of the rustdoc MCP server's documentation index:                  *)
(*   - CrateIndex (src/index.rs): the library cache `crates`, the         *)
(*     load-on-demand operation ensure_loaded, the path indexer            *)
(*     build_path_map / traverse_item, and the fuzzy search;               *)
(*   - DocGenerator::generate (src/doc_gen.rs): acquisition of the         *)
(*     rustdoc JSON artifact under an exclusive file lock.                 *)
(*                                                                         *)
(* Strings are sequences of one-character strings, so that formatting,     *)
(* substring tests and the Jaro-Winkler metric are computed, not assumed.  *)
(* Requests run as concurrent tasks (tokio multi-thread runtime); every    *)
(* access to shared state (cache, file system, lock) is its own step.      *)
(***************************************************************************)
EXTENDS Integers, Sequences, FiniteSets, TLC

(***************************************************************************)
(* Bounds of the model                                                     *)
(***************************************************************************)
\* number of concurrent request tasks
NumTasks == 2
\* total number of requests started in one behaviour
MaxCalls == 3
\* number of children of the root module of the library "big"
NumBig == 30
\* recursion depth the indexer's call stack can hold
MaxDepth == 6
\* number of rotations of a hash map's iteration order that are explored
MaxRot == 2

(***************************************************************************)
(* Program constants                                                       *)
(***************************************************************************)
\* matches.truncate(20)
MaxResults == 20

(***************************************************************************)
(* Option values                                                           *)
(***************************************************************************)
None == [some |-> FALSE]
Some(v) == [some |-> TRUE, val |-> v]

Min(a, b) == IF a <= b THEN a ELSE b
Max(a, b) == IF a >= b THEN a ELSE b

(***************************************************************************)
(* Strings                                                                 *)
(***************************************************************************)
Sep == <<":", ":">>

\* JoinPath that forgets the path of the parent
JoinPathBare(current_path, name) == name

\* format!("{}::{}", current_path, name)
JoinPath(current_path, name) == current_path \o Sep \o name

\* str::replace('-', "_")
ReplaceHyphen(s) == [i \in 1..Len(s) |-> IF s[i] = "-" THEN "_" ELSE s[i]]

\* str::contains(query): query occurs in path as a contiguous, case-sensitive
\* run of characters (the empty query occurs in every path)
Contains(path, query) ==
    \E k \in 0..(Len(path) - Len(query)) :
        \A i \in 1..Len(query) : path[k + i] = query[i]

(***************************************************************************)
(* strsim::jaro_winkler, on exact rationals [n, d] (n/d, d > 0)            *)
(***************************************************************************)
Rat(n, d) == [n |-> n, d |-> d]

\* -1, 0, 1 as n1/d1 is less than, equal to, greater than n2/d2; computed
\* by the Euclidean expansion so that no product leaves the integer range
RECURSIVE CmpFrac(_, _, _, _)
CmpFrac(n1, d1, n2, d2) ==
    LET q1 == n1 \div d1
        q2 == n2 \div d2
        r1 == n1 % d1
        r2 == n2 % d2
    IN  IF q1 < q2 THEN -1
        ELSE IF q1 > q2 THEN 1
        ELSE IF r1 = 0 /\ r2 = 0 THEN 0
        ELSE IF r1 = 0 THEN -1
        ELSE IF r2 = 0 THEN 1
        ELSE CmpFrac(d2, r2, d1, r1)

RatCmp(x, y) == CmpFrac(x.n, x.d, y.n, y.d)
RatGt(x, y) == RatCmp(x, y) = 1

\* the least element of a non-empty set of numbers
Least(S) == CHOOSE x \in S : \A y \in S : x <= y

\* the unflagged elements of b equal to a[i] inside the search window of i
JaroCandidates(a, b, i, bflags, search_range) ==
    {j \in (Max(i - 1 - search_range, 0) + 1)..Min(Len(b), i + search_range) :
        a[i] = b[j] /\ j \notin bflags}

\* one step of the matching loop: flag the first candidate, if there is one
RECURSIVE JaroFlags(_, _, _, _, _)
JaroFlag(a, b, i, aflags, bflags, cand) ==
    IF cand = {} THEN JaroFlags(a, b, i + 1, aflags, bflags)
    ELSE JaroFlags(a, b, i + 1, aflags \cup {i}, bflags \cup {Least(cand)})

\* the matching loop of generic_jaro: for the i-th element of a, flag the
\* first unflagged equal element of b inside the search window
JaroFlags(a, b, i, aflags, bflags) ==
    IF i > Len(a) THEN [a |-> aflags, b |-> bflags]
    ELSE JaroFlag(a, b, i, aflags, bflags,
                  JaroCandidates(a, b, i, bflags,
                                 Max(Max(Len(a), Len(b)) \div 2 - 1, 0)))

\* the flagged elements of s, in order
RECURSIVE Flagged(_, _, _)
Flagged(s, flags, i) ==
    IF i > Len(s) THEN <<>>
    ELSE IF i \in flags THEN <<s[i]>> \o Flagged(s, flags, i + 1)
    ELSE Flagged(s, flags, i + 1)

\* half the number of flagged positions at which am and bm differ
Transpositions(am, bm) ==
    Cardinality({k \in 1..Len(am) : am[k] # bm[k]}) \div 2

\* (m/|a| + m/|b| + (m - t)/m) / 3
JaroScore(la, lb, matches, transpositions) ==
    IF matches = 0 THEN Rat(0, 1)
    ELSE Rat(  matches * matches * lb
             + matches * matches * la
             + (matches - transpositions) * la * lb,
             3 * la * lb * matches)

JaroOfFlags(a, b, f) ==
    JaroScore(Len(a), Len(b), Cardinality(f.a),
              Transpositions(Flagged(a, f.a, 1), Flagged(b, f.b, 1)))

Jaro(a, b) ==
    IF Len(a) = 0 /\ Len(b) = 0 THEN Rat(1, 1)
    ELSE IF Len(a) = 0 \/ Len(b) = 0 THEN Rat(0, 1)
    ELSE JaroOfFlags(a, b, JaroFlags(a, b, 1, {}, {}))

\* the greatest element of a non-empty set of numbers
Greatest(S) == CHOOSE k \in S : \A m \in S : m <= k

\* length of the common prefix of a and b, at most 4
PrefixLength(a, b) ==
    Greatest({k \in 0..Min(4, Min(Len(a), Len(b))) : \A i \in 1..k : a[i] = b[i]})

\* the Winkler boost, given only to a similarity above 0.7
Winkler(a, b, sim) ==
    IF RatGt(sim, Rat(7, 10))
    THEN Rat(10 * sim.n + PrefixLength(a, b) * (sim.d - sim.n), 10 * sim.d)
    ELSE sim

JaroWinkler(a, b) == Winkler(a, b, Jaro(a, b))

\* the match threshold of search: 0.8
Threshold == Rat(4, 5)

(***************************************************************************)
(* Type expressions and generics (rustdoc_types::Type, Generics)           *)
(***************************************************************************)
\* the names and expressions that occur in the samples
Str ==
    [i32 |-> <<"i", "3", "2">>,
     String |-> <<"S", "t", "r", "i", "n", "g">>,
     u8 |-> <<"u", "8">>,
     bool |-> <<"b", "o", "o", "l">>,
     T |-> <<"T">>,
     N |-> <<"N">>,
     Vec |-> <<"V", "e", "c">>,
     Clone |-> <<"C", "l", "o", "n", "e">>,
     Sized |-> <<"S", "i", "z", "e", "d">>,
     Item |-> <<"I", "t", "e", "m">>,
     str |-> <<"s", "t", "r">>,
     arg1 |-> <<"a", "r", "g", "1">>,
     a |-> <<"a">>,
     b |-> <<"b">>,
     four |-> <<"4">>,
     Marker |-> <<"M", "a", "r", "k", "e", "r">>,
     MyStruct |-> <<"M", "y", "S", "t", "r", "u", "c", "t">>,
     my_fn |-> <<"m", "y", "_", "f", "n">>,
     U |-> <<"U">>,
     E |-> <<"E">>,
     Tr |-> <<"T", "r">>,
     Al |-> <<"A", "l">>,
     K |-> <<"K">>,
     S |-> <<"S">>,
     lifetime |-> <<"'", "a">>]

Primitive(name) == [tag |-> "Primitive", name |-> name]
Tuple(types) == [tag |-> "Tuple", types |-> types]
Slice(type_) == [tag |-> "Slice", type_ |-> type_]
Array(type_, len) == [tag |-> "Array", type_ |-> type_, len |-> len]
BorrowedRef(lifetime, is_mutable, type_) ==
    [tag |-> "BorrowedRef", lifetime |-> lifetime, is_mutable |-> is_mutable,
     type_ |-> type_]
RawPointer(is_mutable, type_) ==
    [tag |-> "RawPointer", is_mutable |-> is_mutable, type_ |-> type_]
Generic(name) == [tag |-> "Generic", name |-> name]
ResolvedPath(path, args) == [tag |-> "ResolvedPath", path |-> path, args |-> args]
ImplTrait(bounds) == [tag |-> "ImplTrait", bounds |-> bounds]
DynTrait(lifetime, traits) == [tag |-> "DynTrait", lifetime |-> lifetime, traits |-> traits]
\* FunctionPointer, QualifiedPath, Pat, Infer: the shapes format_type has no arm for
OtherType(tag) == [tag |-> tag]

AngleBracketed(args, constraints) ==
    [tag |-> "AngleBracketed", args |-> args, constraints |-> constraints]
Parenthesized(inputs, output) ==
    [tag |-> "Parenthesized", inputs |-> inputs, output |-> output]
TraitBound(path, args, generic_params, modifier) ==
    [tag |-> "TraitBound", trait_ |-> [path |-> path, args |-> args],
     generic_params |-> generic_params, modifier |-> modifier]
Outlives(l) == [tag |-> "Outlives", l |-> l]
LifetimeParam(name, outlives) ==
    [name |-> name, kind |-> [tag |-> "Lifetime", outlives |-> outlives]]
TypeParam(name, bounds, default, is_synthetic) ==
    [name |-> name, kind |-> [tag |-> "Type", bounds |-> bounds, default |-> default,
                              is_synthetic |-> is_synthetic]]
ConstParam(name, type_, default) ==
    [name |-> name, kind |-> [tag |-> "Const", type_ |-> type_, default |-> default]]

(***************************************************************************)
(* The documentation graph (rustdoc_types::Crate)                          *)
(***************************************************************************)
s_lib == <<"l", "i", "b">>
s_oth == <<"o", "t", "h">>
s_big == <<"b", "i", "g">>
s_Point == <<"P", "o", "i", "n", "t">>
s_Pont == <<"P", "o", "n", "t">>
s_Zyx == <<"Z", "y", "x">>
s_x == <<"x">>
s_y == <<"y">>
s_new == <<"n", "e", "w">>
s_Vec == <<"V", "e", "c">>

\* Item { id, name, docs, inner }
Item(id, name, inner) == [id |-> id, name |-> name, docs |-> None, inner |-> inner]

\* the item with the documentation text docs
WithDocs(item, docs) == [item EXCEPT !.docs = Some(docs)]

\* Generics { params } without parameters
NoGenerics == [params |-> <<>>]

Module(items) == [tag |-> "Module", items |-> items]
StructUnit(impls) ==
    [tag |-> "Struct", kind |-> "Unit", ids |-> <<>>, impls |-> impls,
     generics |-> NoGenerics]
StructTuple(ids, impls) ==
    [tag |-> "Struct", kind |-> "Tuple", ids |-> ids, impls |-> impls,
     generics |-> NoGenerics]
StructPlain(fields, impls) ==
    [tag |-> "Struct", kind |-> "Plain", ids |-> fields, impls |-> impls,
     generics |-> NoGenerics]
Enum(variants, impls) ==
    [tag |-> "Enum", variants |-> variants, impls |-> impls, generics |-> NoGenerics]
ImplFor(items, generics, trait_, for_) ==
    [tag |-> "Impl", items |-> items, generics |-> generics, trait_ |-> trait_,
     for_ |-> for_]
UseFrom(name, source) == [tag |-> "Use", name |-> name, source |-> source]
FunctionHeader(is_const, is_async, is_unsafe) ==
    [is_const |-> is_const, is_async |-> is_async, is_unsafe |-> is_unsafe]
Function(header, generics, inputs, output) ==
    [tag |-> "Function", header |-> header, generics |-> generics,
     sig |-> [inputs |-> inputs, output |-> output]]
Param(name, type_) == [name |-> name, type_ |-> type_]
StructField(type_) == [tag |-> "StructField", type_ |-> type_]
Variant(kind, types) == [tag |-> "Variant", kind |-> kind, types |-> types]
\* Union, Trait: the kinds that carry generics only
GenericItem(tag, generics) == [tag |-> tag, generics |-> generics]
TypeAlias(generics, type_) == [tag |-> "TypeAlias", generics |-> generics, type_ |-> type_]
\* Constant, Static: the kinds that carry a type
TypedItem(tag, type_) == [tag |-> tag, type_ |-> type_]
Leaf(tag) == [tag |-> tag]
\* the inner with the generics given
WithGenerics(inner, generics) == [inner EXCEPT !.generics = generics]

\* an inherent block of the record Point
Impl(items) == ImplFor(items, NoGenerics, None, ResolvedPath(s_Point, None))
\* a re-export whose source is its name
Use(name) == UseFrom(name, name)
\* fn name()
PlainFn == Function(FunctionHeader(FALSE, FALSE, FALSE), NoGenerics, <<>>, None)

\* the order in which a HashMap instance is iterated is fixed when it is
\* built: every graph carries the order of its index
FirstOrder == [rot |-> 0, rev |-> FALSE]

\* the graph rustdoc emits for the package "lib": a record Point with the
\* fields x, y and an inherent block with `new`; an unnamed re-export; and a
\* child identifier that is not in the index
GraphLib ==
    [root |-> 0, order |-> FirstOrder,
     index |->
        (0 :> Item(0, Some(s_lib), Module(<<1, 6, 7>>)) @@
         1 :> Item(1, Some(s_Point), StructPlain(<<2, 3>>, <<4>>)) @@
         2 :> Item(2, Some(s_x), StructField(Primitive(Str.i32))) @@
         3 :> Item(3, Some(s_y), StructField(Primitive(Str.i32))) @@
         4 :> Item(4, None, Impl(<<5>>)) @@
         5 :> Item(5, Some(s_new),
                   Function(FunctionHeader(FALSE, FALSE, FALSE), NoGenerics,
                            <<Param(s_x, Primitive(Str.i32)),
                              Param(s_y, Primitive(Str.i32))>>,
                            Some(ResolvedPath(s_Point, None)))) @@
         6 :> Item(6, None, Use(s_Vec)))]

\* the graph of the package "oth": a function Point directly under the root
GraphOth ==
    [root |-> 0, order |-> FirstOrder,
     index |->
        (0 :> Item(0, Some(s_oth), Module(<<1>>)) @@
         1 :> Item(1, Some(s_Point), PlainFn))]

\* the name of the i-th child of "big": one to three copies of one letter
Letters == <<"a", "b", "c", "d", "e", "f", "g", "h", "j", "k", "m", "n">>
BigName(i) == [k \in 1..(1 + (i % 3)) |-> Letters[((i \div 3) % 12) + 1]]

\* the graph of the package "big": NumBig functions under the root
GraphBig ==
    [root |-> 0, order |-> FirstOrder,
     index |->
        [id \in 0..NumBig |->
            IF id = 0 THEN Item(0, Some(s_big), Module([k \in 1..NumBig |-> k]))
            ELSE Item(id, Some(BigName(id - 1)), PlainFn)]]

\* the library names a request can carry
CrateNames == {s_lib, s_oth, s_big}

\* names with a separator: the package "foo-bar" and its spelling with an
\* underscore, the package "x_y" and its spelling with a hyphen
Sp ==
    [foo_dash_bar |-> <<"f", "o", "o", "-", "b", "a", "r">>,
     foo_bar |-> <<"f", "o", "o", "_", "b", "a", "r">>,
     x_dash_y |-> <<"x", "-", "y">>,
     x_y |-> <<"x", "_", "y">>]

SeparatorNames == {Sp.foo_dash_bar, Sp.foo_bar, Sp.x_dash_y, Sp.x_y}

\* target/doc/<name with '-' replaced by '_'>.json
JsonFile(name) == ReplaceHyphen(name)
FileNames == {JsonFile(n) : n \in CrateNames \cup SeparatorNames}

\* the graph of a library with one function, new, under its root; rustdoc
\* names the root with underscores
GraphOne(file) ==
    [root |-> 0, order |-> FirstOrder,
     index |->
        (0 :> Item(0, Some(file), Module(<<1>>)) @@
         1 :> Item(1, Some(s_new), PlainFn))]

\* the graph `cargo rustdoc` writes to the file
Artifact(file) ==
    IF file = s_lib THEN GraphLib
    ELSE IF file = s_oth THEN GraphOth
    ELSE IF file \in {Sp.foo_bar, Sp.x_y} THEN GraphOne(file)
    ELSE GraphBig

(***************************************************************************)
(* The path indexer: CrateIndex::build_path_map / traverse_item            *)
(***************************************************************************)
\* MapInsert that keeps the value of a key that is already present
MapInsertKeepsFirst(map, k, v) ==
    [p \in (DOMAIN map) \cup {k} |-> IF p \in DOMAIN map THEN map[p] ELSE v]

\* HashMap::insert
MapInsert(map, k, v) ==
    [p \in (DOMAIN map) \cup {k} |-> IF p = k THEN v ELSE map[p]]

EmptyMap == [p \in {} |-> 0]

\* `if let Some(x) = krate.index.get(id) && let Some(name) = &x.name`
Named(krate, id) ==
    id \in DOMAIN krate.index /\ krate.index[id].name.some

\* insert prefix::name -> id for every id of `ids` that is present and named
RECURSIVE InsertNamed(_, _, _, _, _)
InsertNamed(krate, ids, i, current_path, map) ==
    IF i > Len(ids) THEN map
    ELSE IF Named(krate, ids[i])
    THEN InsertNamed(krate, ids, i + 1, current_path,
            MapInsert(map,
                      JoinPath(current_path, krate.index[ids[i]].name.val),
                      krate.index[ids[i]].id))
    ELSE InsertNamed(krate, ids, i + 1, current_path, map)

\* `for impl_id in &s.impls`: flatten the members of every present impl block
RECURSIVE InsertImpls(_, _, _, _, _)
InsertImpls(krate, impls, i, current_path, map) ==
    IF i > Len(impls) THEN map
    ELSE IF impls[i] \in DOMAIN krate.index
            /\ krate.index[impls[i]].inner.tag = "Impl"
    THEN InsertImpls(krate, impls, i + 1, current_path,
            InsertNamed(krate, krate.index[impls[i]].inner.items, 1,
                        current_path, map))
    ELSE InsertImpls(krate, impls, i + 1, current_path, map)

\* Flatten dropping every element of the field list
FlattenNothing(ids) == <<>>

\* `ids.iter().flatten()`: the Some elements of a tuple struct's field list
RECURSIVE Flatten(_)
Flatten(ids) ==
    IF ids = <<>> THEN <<>>
    ELSE IF Head(ids).some THEN <<Head(ids).val>> \o Flatten(Tail(ids))
    ELSE Flatten(Tail(ids))

\* The traversal state is [map, overflow]: overflow is set when the
\* recursion needs more than `depth` further stack frames.
RECURSIVE traverse_item(_, _, _, _, _)
RECURSIVE TraverseChildren(_, _, _, _, _, _)

traverse_item(krate, item, current_path, st, depth) ==
    IF st.overflow THEN st
    ELSE IF depth = 0 THEN [st EXCEPT !.overflow = TRUE]
    ELSE
        LET map == MapInsert(st.map, current_path, item.id)
            inner == item.inner
        IN  IF inner.tag = "Module"
            THEN TraverseChildren(krate, inner.items, 1, current_path,
                                  [st EXCEPT !.map = map], depth - 1)
            ELSE IF inner.tag = "Struct"
            THEN [st EXCEPT !.map =
                    InsertImpls(krate, inner.impls, 1, current_path,
                        InsertNamed(krate,
                            IF inner.kind = "Tuple" THEN Flatten(inner.ids)
                            ELSE inner.ids,
                            1, current_path, map))]
            ELSE IF inner.tag = "Enum"
            THEN [st EXCEPT !.map =
                    InsertImpls(krate, inner.impls, 1, current_path,
                        InsertNamed(krate, inner.variants, 1, current_path, map))]
            ELSE [st EXCEPT !.map = map]

\* TraverseChildren leaving the loop at the first child it skips
TraverseChildrenStopAtSkip(krate, items, i, current_path, st, depth) ==
    IF i > Len(items) \/ st.overflow THEN st
    ELSE IF Named(krate, items[i])
    THEN TraverseChildren(krate, items, i + 1, current_path,
            traverse_item(krate, krate.index[items[i]],
                          JoinPath(current_path, krate.index[items[i]].name.val),
                          st, depth),
            depth)
    ELSE st

\* `for item_id in &m.items`
TraverseChildren(krate, items, i, current_path, st, depth) ==
    IF i > Len(items) \/ st.overflow THEN st
    ELSE IF Named(krate, items[i])
    THEN TraverseChildren(krate, items, i + 1, current_path,
            traverse_item(krate, krate.index[items[i]],
                          JoinPath(current_path, krate.index[items[i]].name.val),
                          st, depth),
            depth)
    ELSE TraverseChildren(krate, items, i + 1, current_path, st, depth)

build_path_map(krate, crate_name) ==
    LET st0 == [map |-> EmptyMap, overflow |-> FALSE]
    IN  IF krate.root \in DOMAIN krate.index
        THEN traverse_item(krate, krate.index[krate.root], crate_name, st0, MaxDepth)
        ELSE st0

\* LoadedCrate stored before its path table is filled
LoadedCrateUnindexed(krate, path_to_id) ==
    [krate |-> krate, path_to_id |-> [p \in {krate.root} \cap {} |-> 0]]

\* LoadedCrate { krate, path_to_id }
LoadedCrate(krate, path_to_id) == [krate |-> krate, path_to_id |-> path_to_id]

\* index.rs get_item_kind
get_item_kind(item) ==
    CASE item.inner.tag = "Module" -> "module"
      [] item.inner.tag = "ExternCrate" -> "extern_crate"
      [] item.inner.tag = "Use" -> "import"
      [] item.inner.tag = "Union" -> "union"
      [] item.inner.tag = "Struct" -> "struct"
      [] item.inner.tag = "StructField" -> "struct_field"
      [] item.inner.tag = "Enum" -> "enum"
      [] item.inner.tag = "Variant" -> "variant"
      [] item.inner.tag = "Function" -> "function"
      [] item.inner.tag = "TypeAlias" -> "type_alias"
      [] item.inner.tag = "Trait" -> "trait"
      [] item.inner.tag = "TraitAlias" -> "trait_alias"
      [] item.inner.tag = "Impl" -> "impl"
      [] item.inner.tag = "Static" -> "static"
      [] item.inner.tag = "Macro" -> "macro"
      [] item.inner.tag = "ProcMacro" -> "proc_macro"
      [] item.inner.tag = "Primitive" -> "primitive"
      [] item.inner.tag = "AssocConst" -> "assoc_const"
      [] item.inner.tag = "AssocType" -> "assoc_type"
      [] OTHER -> "other"

(***************************************************************************)
(* The search engine: CrateIndex::search                                   *)
(***************************************************************************)
\* Iteration over a DashMap or HashMap visits the entries in an order the
\* program does not control: a fixed enumeration of the keys, rotated by
\* ord.rot and reversed when ord.rev.
RECURSIVE SeqOf(_)
SeqOf(S) ==
    IF S = {} THEN <<>>
    ELSE LET x == CHOOSE e \in S : TRUE IN <<x>> \o SeqOf(S \ {x})

Rotate(s, r) ==
    IF Len(s) = 0 THEN s
    ELSE [i \in 1..Len(s) |-> s[((i - 1 + r) % Len(s)) + 1]]

Reverse(s) == [i \in 1..Len(s) |-> s[Len(s) + 1 - i]]

Orders(rots) == [rot : rots, rev : BOOLEAN]

IterOrder(S, ord) ==
    IF ord.rev THEN Reverse(Rotate(SeqOf(S), ord.rot))
    ELSE Rotate(SeqOf(S), ord.rot)

\* IsMatch without the substring test
IsMatchScoreOnly(query, path) == RatGt(JaroWinkler(query, path), Threshold)

\* IsMatch without the similarity test
IsMatchSubstringOnly(query, path) == Contains(path, query)

\* `score > 0.8 || path.contains(query)`
IsMatch(query, path) ==
    RatGt(JaroWinkler(query, path), Threshold) \/ Contains(path, query)

\* the kind of a match: the kind of the item, "unknown" for a dangling id
KindOf(loaded, id) ==
    IF id \in DOMAIN loaded.krate.index
    THEN get_item_kind(loaded.krate.index[id])
    ELSE "unknown"

\* `for (path, id) in &loaded_crate.path_to_id`: the (path, kind, score)
\* triples pushed for one library, in iteration order
RECURSIVE TableMatches(_, _, _, _)
TableMatches(loaded, query, paths, i) ==
    IF i > Len(paths) THEN <<>>
    ELSE IF IsMatch(query, paths[i])
    THEN << [path |-> paths[i],
             kind |-> KindOf(loaded, loaded.path_to_id[paths[i]]),
             score |-> JaroWinkler(query, paths[i])] >>
         \o TableMatches(loaded, query, paths, i + 1)
    ELSE TableMatches(loaded, query, paths, i + 1)

\* CrateMatches without the scope filter of lines 236-240
RECURSIVE CrateMatchesNoScope(_, _, _, _, _, _)
CrateMatchesNoScope(cache, names, i, query, crate_name, ord) ==
    IF i > Len(names) THEN <<>>
    ELSE TableMatches(cache[names[i]], query,
                      IterOrder(DOMAIN cache[names[i]].path_to_id, ord), 1)
         \o CrateMatchesNoScope(cache, names, i + 1, query, crate_name, ord)

\* CrateMatches leaving the loop after the first entry in scope
RECURSIVE CrateMatchesFirstOnly(_, _, _, _, _, _)
CrateMatchesFirstOnly(cache, names, i, query, crate_name, ord) ==
    IF i > Len(names) THEN <<>>
    ELSE IF crate_name.some /\ names[i] # crate_name.val
    THEN CrateMatchesFirstOnly(cache, names, i + 1, query, crate_name, ord)
    ELSE TableMatches(cache[names[i]], query,
                      IterOrder(DOMAIN cache[names[i]].path_to_id, ord), 1)

\* `for entry in self.crates.iter()`, skipping every key other than the
\* scope when a scope is given
RECURSIVE CrateMatches(_, _, _, _, _, _)
CrateMatches(cache, names, i, query, crate_name, ord) ==
    IF i > Len(names) THEN <<>>
    ELSE IF crate_name.some /\ names[i] # crate_name.val
    THEN CrateMatches(cache, names, i + 1, query, crate_name, ord)
    ELSE TableMatches(cache[names[i]], query,
                      IterOrder(DOMAIN cache[names[i]].path_to_id, ord), 1)
         \o CrateMatches(cache, names, i + 1, query, crate_name, ord)

\* `b.2.partial_cmp(&a.2)`: a goes before b when its score is not smaller
ScoreBefore(a, b) == RatCmp(a.score, b.score) >= 0

\* the stable sort of sort_by: insert each element behind every element
\* that goes before it
RECURSIVE InsertSorted(_, _)
InsertSorted(sorted, e) ==
    IF sorted = <<>> THEN <<e>>
    ELSE IF ScoreBefore(Head(sorted), e)
    THEN <<Head(sorted)>> \o InsertSorted(Tail(sorted), e)
    ELSE <<e>> \o sorted

RECURSIVE SortMatches(_, _)
SortMatches(matches, i) ==
    IF i = 0 THEN <<>>
    ELSE InsertSorted(SortMatches(matches, i - 1), matches[i])

\* Truncate keeping one entry too many
TruncateOffByOne(matches) == SubSeq(matches, 1, Min(Len(matches), MaxResults + 1))

\* matches.truncate(20)
Truncate(matches) == SubSeq(matches, 1, Min(Len(matches), MaxResults))

ItemSummary(name, kind) == [name |-> name, kind |-> kind]

\* lines 265-268: the (path, kind) pairs of the kept matches
Summaries(kept) ==
    [i \in 1..Len(kept) |-> ItemSummary(kept[i].path, kept[i].kind)]

\* lines 262-268: sort, truncate, map
SearchResult(matches) ==
    [found |-> Len(matches),
     list |-> Summaries(Truncate(SortMatches(matches, Len(matches))))]

\* the body of search after the optional load: scan, sort, truncate, map.
\* `visible` is the set of cache keys the iteration gets to see.
SearchScan(cache, visible, query, crate_name, ord) ==
    SearchResult(CrateMatches(cache, IterOrder(visible, ord), 1,
                              query, crate_name, ord))

(***************************************************************************)
(* The workspace (src/workspace.rs): the packages cargo metadata reports   *)
(***************************************************************************)
\* keys of Workspace::packages
Packages == {s_lib, s_oth, s_big, Sp.foo_dash_bar, Sp.x_y}

\* the feature selection of the package's node in metadata.resolve
PackageFeatures(pkg) == IF pkg = s_lib THEN Some(<<"std">>) ELSE Some(<<>>)

\* `packages.get(crate_name).or_else(|| packages.iter().find(|(k, _)|
\* k.replace('-', "_") == crate_name))`: the packages the lookup can yield
ResolvePackage(crate_name) ==
    IF crate_name \in Packages THEN {crate_name}
    ELSE {k \in Packages : ReplaceHyphen(k) = crate_name}

\* the arguments ensure_loaded passes to DocGenerator::generate
GenerateArgs(crate_name) ==
    IF ResolvePackage(crate_name) = {}
    THEN {[package_name |-> crate_name, features |-> None]}
    ELSE {[package_name |-> pkg, features |-> PackageFeatures(pkg)] :
            pkg \in ResolvePackage(crate_name)}

(***************************************************************************)
(* State                                                                   *)
(***************************************************************************)
VARIABLES
    crates,   \* CrateIndex::crates: crate name -> LoadedCrate (the DashMap)
    files,    \* target/doc/<file>.json: "absent", "good", "corrupt", "looped", "shadowed"
    lock,     \* target/doc/<file>.lock: the task holding the lock, 0 if free
    task,     \* per request task: position, request, locals and result
    calls,    \* number of requests started so far
    stats,    \* per crate name: how often each load step has succeeded
    cfg,      \* the tasks, crate names, queries and iteration orders of this run
    arg,      \* the input of a pure function under test (indexer, renderer)
    out       \* what the function under test has returned so far

vars == <<crates, files, lock, task, calls, stats, cfg, arg, out>>

Tasks == 1..NumTasks

NoRet == [st |-> "none", err |-> "", list |-> <<>>]
Ok(list) == [st |-> "ok", err |-> "", list |-> list]
Err(e) == [st |-> "err", err |-> e, list |-> <<>>]

\* the errors ensure_loaded propagates
LoadErrors == {"Failed to create lock file",
               "Failed to lock file",
               "Failed to execute cargo rustdoc",
               "cargo rustdoc failed",
               "Documentation generated but file not found",
               "Failed to read rustdoc JSON",
               "Failed to parse rustdoc JSON"}

NoGen == [package_name |-> <<>>, features |-> None]

\* a task that runs no request
IdleTask ==
    [pc |-> "idle",
     req |-> [op |-> "none", name |-> <<>>, query |-> <<>>, scope |-> None,
              path |-> <<>>],
     ret |-> NoRet,
     gen |-> NoGen,        \* arguments of the running generate call
     content |-> "absent", \* what read_to_string returned
     hit |-> FALSE,        \* ensure_loaded found the key at line 39
     work |-> {},          \* load steps this call has performed
     snap |-> {},          \* cache keys when the request started
     seen0 |-> {},         \* cache keys when the iteration started
     searched |-> {},      \* cache keys the iteration visited
     found |-> 0]          \* matches.len() before truncation

\* the tools that take the path of an item
PathTools == {"get_docs", "get_module"}

\* the tools that look into the loaded library after ensure_loaded
LookupTools == PathTools \cup {"list_crate_items"}

Requests ==
    [op : {"ensure_loaded"}, name : cfg.names, query : {<<>>}, scope : {None},
     path : {<<>>}]
    \cup
    [op : {"search"}, name : {<<>>}, query : cfg.queries,
     scope : {None} \cup {Some(n) : n \in cfg.names}, path : {<<>>}]
    \cup
    [op : PathTools, name : {<<>>}, query : {<<>>}, scope : {None},
     path : cfg.paths]
    \cup
    [op : {"list_crate_items"}, name : cfg.lists, query : {<<>>},
     scope : {None}, path : {<<>>}]

\* server.rs lines 132-136, 196-200: path.split("::") ... parts[0], the
\* text before the first "::"
CrateOf(path) ==
    SubSeq(path, 1,
           Least({i \in 1..Len(path) - 1 : SubSeq(path, i, i + 1) = Sep}
                 \cup {Len(path) + 1}) - 1)

\* the crate a request loads before anything else
LoadName(req) ==
    IF req.op = "search" THEN req.scope.val
    ELSE IF req.op \in PathTools THEN CrateOf(req.path)
    ELSE req.name

NeedsLoad(req) == req.op # "search" \/ req.scope.some

ZeroStats ==
    [n \in CrateNames \cup SeparatorNames |-> [acquired |-> 0, parsed |-> 0, indexed |-> 0, inserted |-> 0,
                           failed |-> 0]]

Queries == {s_Point, s_Pont, JoinPath(s_lib, s_Pont), s_Zyx, s_big, <<>>,
            JoinPath(s_oth, s_Point)}

\* no function under test
NoArg == [kind |-> "none"]
NoOut == <<>>

\* CrateIndex::new: an empty cache; no documentation generated yet
InitState ==
    /\ crates = [n \in {} |-> 0]
    /\ files = [f \in FileNames |-> "absent"]
    /\ lock = [f \in FileNames |-> 0]
    /\ task = [t \in Tasks |-> IdleTask]
    /\ calls = 0
    /\ stats = ZeroStats

\* the server: requests only
InitServer ==
    /\ InitState
    /\ arg = NoArg
    /\ out = NoOut

\* concurrent requests over two small libraries
Init ==
    /\ InitServer
    /\ cfg = [tasks |-> Tasks, names |-> {s_lib, s_oth},
              queries |-> {s_Point, s_Zyx}, rots |-> {0}, paths |-> {},
              lists |-> {}]

\* one request at a time, over all libraries and queries
InitSeq ==
    /\ InitServer
    /\ cfg = [tasks |-> {1}, names |-> CrateNames, queries |-> Queries,
              rots |-> 0..MaxRot, paths |-> {},
              lists |-> {}]

(***************************************************************************)
(* CrateIndex::ensure_loaded                                               *)
(***************************************************************************)
\* ContainsKey that never finds the key
ContainsKeyNever(cache, crate_name) == FALSE

\* self.crates.contains_key(crate_name)
ContainsKey(cache, crate_name) == crate_name \in DOMAIN cache

\* CacheInsert that keys the entry by the name of the artifact file
CacheInsertNormalised(cache, crate_name, loaded) ==
    [n \in (DOMAIN cache) \cup {ReplaceHyphen(crate_name)} |->
        IF n = ReplaceHyphen(crate_name) THEN loaded ELSE cache[n]]

\* self.crates.insert(crate_name.to_string(), LoadedCrate { .. })
CacheInsert(cache, crate_name, loaded) ==
    [n \in (DOMAIN cache) \cup {crate_name} |->
        IF n = crate_name THEN loaded ELSE cache[n]]

\* EnsureReturn of a tool that drops the `?` and looks up after a failed load
EnsureReturnLooksUpAnyway(tk, outcome) ==
    IF tk.req.op = "search" /\ outcome.st = "ok"
    THEN [tk EXCEPT !.pc = "scan_begin"]
    ELSE IF tk.req.op \in LookupTools
    THEN [tk EXCEPT !.pc = tk.req.op]
    ELSE [tk EXCEPT !.pc = "done", !.ret = outcome]

\* EnsureReturn of a search that drops the `?` and scans after a failed load
EnsureReturnDropsError(tk, outcome) ==
    IF tk.req.op = "search"
    THEN [tk EXCEPT !.pc = "scan_begin"]
    ELSE IF tk.req.op \in LookupTools /\ outcome.st = "ok"
    THEN [tk EXCEPT !.pc = tk.req.op]
    ELSE [tk EXCEPT !.pc = "done", !.ret = outcome]

\* ensure_loaded returns `outcome` to its caller: the request is over for
\* ensure_loaded itself and for a tool whose load failed (`?`); a search
\* whose load succeeded goes on to the scan, get_docs, get_module and
\* list_crate_items to their lookup
EnsureReturn(tk, outcome) ==
    IF tk.req.op = "search" /\ outcome.st = "ok"
    THEN [tk EXCEPT !.pc = "scan_begin"]
    ELSE IF tk.req.op \in LookupTools /\ outcome.st = "ok"
    THEN [tk EXCEPT !.pc = tk.req.op]
    ELSE [tk EXCEPT !.pc = "done", !.ret = outcome]

Bump(st, n, field) == [st EXCEPT ![n][field] = @ + 1]

\* remember that a load of n has failed
Failed(st, n) == [st EXCEPT ![n].failed = 1]

\* a request arrives: search with no scope goes straight to the scan
Start(t) ==
    /\ t \in cfg.tasks
    /\ task[t].pc \in {"idle", "done"}
    /\ calls < MaxCalls
    /\ \E r \in Requests :
        task' = [task EXCEPT ![t] =
                    [IdleTask EXCEPT !.req = r,
                                     !.snap = DOMAIN crates,
                                     !.pc = IF NeedsLoad(r) THEN "el_check"
                                            ELSE "scan_begin"]]
    /\ calls' = calls + 1
    /\ UNCHANGED <<crates, files, lock, stats, cfg, arg, out>>

\* lines 39-42: return at once when the key is present
ElCheck(t) ==
    /\ task[t].pc = "el_check"
    /\ IF ContainsKey(crates, LoadName(task[t].req))
       THEN task' = [task EXCEPT ![t] =
                        EnsureReturn([task[t] EXCEPT !.hit = TRUE], Ok(<<>>))]
       ELSE task' = [task EXCEPT ![t].pc = "el_exists"]
    /\ UNCHANGED <<crates, files, lock, calls, stats, cfg, arg, out>>

\* lines 46-98: generate only when the JSON file is not there
ElExists(t) ==
    /\ task[t].pc = "el_exists"
    /\ IF files[JsonFile(LoadName(task[t].req))] # "absent"
       THEN task' = [task EXCEPT ![t].pc = "el_read"]
       ELSE \E g \in GenerateArgs(LoadName(task[t].req)) :
                task' = [task EXCEPT ![t].pc = "gen_lock", ![t].gen = g]
    /\ UNCHANGED <<crates, files, lock, calls, stats, cfg, arg, out>>

\* the load of task t ends with the error e (`?` or bail!)
LoadFails(t, e) ==
    /\ task' = [task EXCEPT ![t] = EnsureReturn(task[t], Err(e))]
    /\ stats' = Failed(stats, LoadName(task[t].req))

\* lines 101-103: read the file
ElRead(t) ==
    /\ task[t].pc = "el_read"
    /\ LET f == JsonFile(LoadName(task[t].req))
       IN  \/ /\ files[f] # "absent"
              /\ task' = [task EXCEPT ![t].pc = "el_insert",
                                      ![t].content = files[f],
                                      ![t].work = @ \cup {"read"}]
              /\ UNCHANGED stats
           \/ LoadFails(t, "Failed to read rustdoc JSON")
    /\ UNCHANGED <<crates, files, lock, calls, cfg, arg, out>>

\* the graph of the file with its root module added to that module's own
\* list of children
Looped(krate) ==
    [krate EXCEPT !.index[krate.root].inner.items = Append(@, krate.root)]

\* the graph of the file with one more child of its root module: a
\* re-export without a name of its own that re-exports Point
Shadowed(krate) ==
    [root |-> krate.root, order |-> krate.order,
     index |-> [krate.index EXCEPT ![krate.root].inner.items = Append(@, 99)]
               @@ (99 :> Item(99, None, Use(s_Point)))]

\* serde_json::from_str of a file that parses: the graph cargo rustdoc
\* wrote ("good"), a well-formed file left in target/doc whose root
\* module lists itself ("looped"), or the graph of a library that also
\* re-exports a Point ("shadowed")
Parsed(file, content) ==
    IF content = "looped" THEN Looped(Artifact(file))
    ELSE IF content = "shadowed" THEN Shadowed(Artifact(file))
    ELSE Artifact(file)

\* lines 104-112: parse, index, insert; the process aborts when the
\* recursion of traverse_item exhausts the stack
ElInsert(t) ==
    /\ task[t].pc = "el_insert"
    /\ \E name \in {LoadName(task[t].req)} :
         IF task[t].content \notin {"good", "looped", "shadowed"}
         THEN /\ LoadFails(t, "Failed to parse rustdoc JSON")
              /\ UNCHANGED crates
         ELSE \E krate \in {Parsed(JsonFile(name), task[t].content)} :
              \E indexed \in {build_path_map(krate, name)} :
                IF indexed.overflow
                THEN /\ task' = [u \in Tasks |-> [task[u] EXCEPT !.pc = "crashed"]]
                     /\ stats' = Bump(stats, name, "parsed")
                     /\ UNCHANGED crates
                ELSE /\ crates' = CacheInsert(crates, name,
                                              LoadedCrate(krate, indexed.map))
                     /\ stats' = Bump(Bump(Bump(stats, name, "parsed"), name, "indexed"),
                                      name, "inserted")
                     /\ task' = [task EXCEPT ![t] =
                                  EnsureReturn([task[t] EXCEPT !.work =
                                                  @ \cup {"parse", "index", "insert"}],
                                               Ok(<<>>))]
    /\ UNCHANGED <<files, lock, calls, cfg, arg, out>>

(***************************************************************************)
(* DocGenerator::generate                                                  *)
(***************************************************************************)
LockFile(package_name) == ReplaceHyphen(package_name)

\* GenLock whose lock is granted while another call holds it
GenLockShared(t) ==
    /\ task[t].pc = "gen_lock"
    /\ lock' = [lock EXCEPT ![LockFile(task[t].gen.package_name)] = t]
    /\ task' = [task EXCEPT ![t].pc = "gen_check"]
    /\ UNCHANGED <<crates, files, calls, stats, cfg, arg, out>>

\* lines 32-33: create the lock file and wait for the exclusive lock
GenLock(t) ==
    /\ task[t].pc = "gen_lock"
    /\ LET f == LockFile(task[t].gen.package_name)
       IN  \/ /\ lock[f] = 0
              /\ lock' = [lock EXCEPT ![f] = t]
              /\ task' = [task EXCEPT ![t].pc = "gen_check"]
              /\ UNCHANGED stats
           \/ /\ \E e \in {"Failed to create lock file", "Failed to lock file"} :
                    LoadFails(t, e)
              /\ UNCHANGED lock
    /\ UNCHANGED <<crates, files, calls, cfg, arg, out>>

\* lines 35-66: under the lock, skip generation when the file is there,
\* else start `cargo +nightly rustdoc`; when the command cannot be started
\* the lock file is closed by the early return
GenCheck(t) ==
    /\ task[t].pc = "gen_check"
    /\ LET f == LockFile(task[t].gen.package_name)
       IN  IF files[f] # "absent"
           THEN /\ lock' = [lock EXCEPT ![f] = 0]
                /\ task' = [task EXCEPT ![t].pc = "el_read"]
                /\ UNCHANGED stats
           ELSE \/ /\ task' = [task EXCEPT ![t].pc = "gen_running"]
                   /\ UNCHANGED <<lock, stats>>
                \/ /\ lock' = [lock EXCEPT ![f] = 0]
                   /\ LoadFails(t, "Failed to execute cargo rustdoc")
    /\ UNCHANGED <<crates, files, calls, cfg, arg, out>>

\* lines 68-85: the command has ended
GenDone(t) ==
    /\ task[t].pc = "gen_running"
    /\ LET f == LockFile(task[t].gen.package_name)
           name == LoadName(task[t].req)
       IN  /\ lock' = [lock EXCEPT ![f] = 0]
           /\ \/ /\ \E c \in {"good", "corrupt"} : files' = [files EXCEPT ![f] = c]
                 /\ stats' = Bump(stats, name, "acquired")
                 /\ task' = [task EXCEPT ![t].pc = "el_read",
                                         ![t].work = @ \cup {"acquire"}]
              \/ /\ LoadFails(t, "cargo rustdoc failed")
                 /\ UNCHANGED files
              \/ /\ LoadFails(t, "Documentation generated but file not found")
                 /\ UNCHANGED files
    /\ UNCHANGED <<crates, calls, cfg, arg, out>>

(***************************************************************************)
(* CrateIndex::search, after the optional load                             *)
(***************************************************************************)
\* line 234: the iteration over the cache begins
ScanBegin(t) ==
    /\ task[t].pc = "scan_begin"
    /\ task' = [task EXCEPT ![t].pc = "scan_end", ![t].seen0 = DOMAIN crates]
    /\ UNCHANGED <<crates, files, lock, calls, stats, cfg, arg, out>>

\* lines 234-268: the iteration sees every entry that was present when it
\* began and any of those inserted meanwhile; then sort, truncate, return
ScanEnd(t) ==
    /\ task[t].pc = "scan_end"
    /\ \E visible \in SUBSET (DOMAIN crates), ord \in Orders(cfg.rots) :
        /\ task[t].seen0 \subseteq visible
        /\ \E r \in {SearchScan(crates, visible, task[t].req.query,
                               task[t].req.scope, ord)} :
               task' = [task EXCEPT ![t].pc = "done",
                                    ![t].ret = Ok(r.list),
                                    ![t].found = r.found,
                                    ![t].searched =
                                        IF task[t].req.scope.some
                                        THEN visible \cap {task[t].req.scope.val}
                                        ELSE visible]
    /\ UNCHANGED <<crates, files, lock, calls, stats, cfg, arg, out>>

Next ==
    \E t \in Tasks :
        \/ Start(t)
        \/ ElCheck(t)
        \/ ElExists(t)
        \/ ElRead(t)
        \/ ElInsert(t)
        \/ GenLock(t)
        \/ GenCheck(t)
        \/ GenDone(t)
        \/ ScanBegin(t)
        \/ ScanEnd(t)

Spec == Init /\ [][Next]_vars

SpecSeq == InitSeq /\ [][Next]_vars

(***************************************************************************)
(* Properties                                                              *)
(***************************************************************************)
\* the request of task t is over
Done(t) == task[t].pc = "done"

\* C1: a call of ensure_loaded that finds its name in the cache performs no
\* acquisition, read, parse or indexing and returns success with the cache
\* as it was when the call began; so with calls made one after the other,
\* each library is acquired, parsed, indexed and inserted at most once.
C1_CacheHitDoesNothing ==
    /\ \A t \in cfg.tasks :
        task[t].hit =>
            /\ task[t].work = {}
            /\ DOMAIN crates = task[t].snap
            /\ LoadName(task[t].req) \in task[t].snap
            /\ (Done(t) /\ task[t].req.op = "ensure_loaded"
                    => task[t].ret = Ok(<<>>))
    /\ \A n \in CrateNames :
        /\ stats[n].acquired <= 1
        /\ stats[n].parsed <= 1
        /\ stats[n].indexed <= 1
        /\ stats[n].inserted <= 1

\* C1 witness: a second ensure_loaded of a library that an earlier call has
\* loaded has returned
C1_Witness ==
    \E t \in cfg.tasks :
        /\ Done(t)
        /\ task[t].req.op = "ensure_loaded"
        /\ task[t].hit
        /\ stats[task[t].req.name].indexed = 1

\* C2: under every interleaving of concurrent requests, each library is
\* parsed and indexed at most once (the claim as stated; two tasks that both
\* pass the check at line 39 before either inserts refute it).
C2_ParsedIndexedAtMostOnce ==
    \A n \in CrateNames : stats[n].parsed <= 1 /\ stats[n].indexed <= 1

\* C3: the cache is append-only: a key stays a key, its entry stays the
\* entry first inserted, and no later insert replaces it (the claim as
\* stated; the second insert of two racing loads refutes it).
C3_AppendOnly ==
    [][\A n \in DOMAIN crates :
            /\ n \in DOMAIN crates'
            /\ crates'[n] = crates[n]
            /\ stats'[n].inserted = stats[n].inserted]_vars

\* the path table the indexer owes for each library, written out
ExpectedPaths(n) ==
    IF n = s_lib
    THEN {s_lib, JoinPath(s_lib, s_Point),
          JoinPath(JoinPath(s_lib, s_Point), s_x),
          JoinPath(JoinPath(s_lib, s_Point), s_y),
          JoinPath(JoinPath(s_lib, s_Point), s_new)}
    ELSE IF n = s_oth
    THEN {s_oth, JoinPath(s_oth, s_Point)}
    ELSE {s_big} \cup {JoinPath(s_big, BigName(i)) : i \in 0..(NumBig - 1)}

\* every cache entry holds the whole graph and the whole path table
CompleteEntries ==
    \A n \in DOMAIN crates :
        /\ crates[n].krate = Artifact(JsonFile(n))
        /\ DOMAIN crates[n].path_to_id = ExpectedPaths(n)
        /\ \A p \in DOMAIN crates[n].path_to_id :
                crates[n].path_to_id[p] \in DOMAIN crates[n].krate.index

\* C4: ensure_loaded either inserts one complete entry under its name or
\* returns a load error and leaves the cache as it was; no entry is ever
\* partial; a failure leaves nothing behind that keeps a later call from
\* loading again (only a present entry makes a call skip the load).
C4_LoadIsAllOrNothing ==
    /\ [](/\ CompleteEntries
          /\ \A t \in cfg.tasks :
                /\ (Done(t) /\ task[t].ret.st = "err")
                        => /\ task[t].ret.err \in LoadErrors
                           /\ "insert" \notin task[t].work
                /\ (Done(t) /\ task[t].req.op = "ensure_loaded"
                            /\ task[t].ret.st = "ok")
                        => /\ task[t].req.name \in DOMAIN crates
                           /\ (~task[t].hit => "insert" \in task[t].work)
          /\ \A n \in CrateNames :
                n \in DOMAIN crates => stats[n].inserted >= 1)
    /\ [][\A t \in cfg.tasks :
            /\ (task'[t].ret.st = "err" /\ task[t].ret.st # "err")
                    => crates' = crates
            /\ (task'[t].hit /\ ~task[t].hit)
                    => LoadName(task[t].req) \in DOMAIN crates]_vars

\* C4 witness: a load of a library has failed and a later load of the same
\* library has gone through and inserted it
C4_Witness ==
    \E t \in cfg.tasks :
        /\ Done(t)
        /\ task[t].req.op = "ensure_loaded"
        /\ task[t].ret.st = "ok"
        /\ "insert" \in task[t].work
        /\ stats[task[t].req.name].failed = 1

\* a search of task t has returned a list
SearchOk(t) ==
    Done(t) /\ task[t].req.op = "search" /\ task[t].ret.st = "ok"

ListNames(list) == {list[i].name : i \in 1..Len(list)}

\* q occurs in p as a contiguous run
Substring(p, q) == \E i \in 1..(Len(p) + 1), j \in 0..Len(p) : SubSeq(p, i, j) = q

\* the similarity of (q, p) is strictly above 0.8
ScoreAbove(q, p) == 10 * JaroWinkler(q, p).n > 8 * JaroWinkler(q, p).d

\* the match condition of the specification
MatchCond(q, p) == ScoreAbove(q, p) \/ Substring(p, q)

\* the libraries whose tables a finished request had in scope, when no
\* other request runs beside it
InScope(t) ==
    IF task[t].req.scope.some THEN {task[t].req.scope.val} \cap DOMAIN crates
    ELSE DOMAIN crates

\* the (library, path) pairs of the libraries in L that match q
MatchingPairs(L, q) ==
    UNION {{<<n, p>> : p \in {x \in DOMAIN crates[n].path_to_id : MatchCond(q, x)}}
            : n \in L}

MatchingPaths(L, q) == {pr[2] : pr \in MatchingPairs(L, q)}

\* C5: a search with scope lib returns only keys of lib's own path table,
\* also when another loaded library holds a better match.
C5_ScopeIsolation ==
    \A t \in cfg.tasks :
        (SearchOk(t) /\ task[t].req.scope.some) =>
            /\ task[t].req.scope.val \in DOMAIN crates
            /\ ListNames(task[t].ret.list)
                    \subseteq DOMAIN crates[task[t].req.scope.val].path_to_id
            /\ \A n \in DOMAIN crates \ {task[t].req.scope.val} :
                    ListNames(task[t].ret.list)
                        \cap DOMAIN crates[n].path_to_id = {}

\* C5 witness: a search for "Point" with scope lib has returned lib's paths
\* while oth, whose oth::Point scores higher than lib::Point, was loaded
C5_Witness ==
    \E t \in cfg.tasks :
        /\ SearchOk(t)
        /\ task[t].req.scope = Some(s_lib)
        /\ task[t].req.query = s_Point
        /\ s_oth \in task[t].seen0
        /\ JoinPath(s_lib, s_Point) \in ListNames(task[t].ret.list)
        /\ RatGt(JaroWinkler(s_Point, JoinPath(s_oth, s_Point)),
                 JaroWinkler(s_Point, JoinPath(s_lib, s_Point)))

\* C6: a search without scope loads nothing and changes neither cache nor
\* files; it returns paths of cached libraries only, and every library that
\* was cached when the call began is searched.
C6_UnscopedSearchReadsCacheOnly ==
    /\ [](\A t \in cfg.tasks :
            (task[t].req.op = "search" /\ ~task[t].req.scope.some) =>
                /\ task[t].work = {}
                /\ task[t].pc \in {"scan_begin", "scan_end", "done"}
                /\ Done(t) =>
                    /\ task[t].ret.st = "ok"
                    /\ ListNames(task[t].ret.list)
                            \subseteq MatchingPaths(DOMAIN crates, task[t].req.query)
                    /\ Cardinality(MatchingPairs(DOMAIN crates, task[t].req.query))
                            <= MaxResults
                        => MatchingPaths(task[t].snap, task[t].req.query)
                                \subseteq ListNames(task[t].ret.list))
    /\ [][\A t \in cfg.tasks :
            (/\ task[t].req.op = "search"
             /\ ~task[t].req.scope.some
             /\ task'[t] # task[t]
             /\ task'[t].req = task[t].req)
                => crates' = crates /\ files' = files /\ stats' = stats]_vars

\* C6 witness: with lib and oth cached and big never loaded, a search
\* without scope has returned paths of both
C6_Witness ==
    \E t \in cfg.tasks :
        /\ SearchOk(t)
        /\ ~task[t].req.scope.some
        /\ task[t].snap = {s_lib, s_oth}
        /\ DOMAIN crates = {s_lib, s_oth}
        /\ {JoinPath(s_lib, s_Point), JoinPath(s_oth, s_Point)}
                \subseteq ListNames(task[t].ret.list)

\* C7: the list has min(20, number of matching pairs in scope) entries, in
\* non-increasing order of score, and no match left out scores strictly
\* higher than a returned one.
C7_TopTwentyByScore ==
    \A t \in cfg.tasks :
        SearchOk(t) =>
            LET q == task[t].req.query
                list == task[t].ret.list
                all == MatchingPairs(InScope(t), q)
            IN  /\ Len(list) = Min(MaxResults, Cardinality(all))
                /\ \A i \in 1..(Len(list) - 1) :
                        RatCmp(JaroWinkler(q, list[i].name),
                               JaroWinkler(q, list[i + 1].name)) >= 0
                /\ \A pr \in all :
                        pr[2] \notin ListNames(list) =>
                            \A i \in 1..Len(list) :
                                RatCmp(JaroWinkler(q, pr[2]),
                                       JaroWinkler(q, list[i].name)) <= 0

\* C7 witness: more than 20 pairs matched and exactly 20 were returned
C7_Witness ==
    \E t \in cfg.tasks :
        /\ SearchOk(t)
        /\ Cardinality(MatchingPairs(InScope(t), task[t].req.query)) >= 30
        /\ Len(task[t].ret.list) = MaxResults

\* C8: every returned path scores above 0.8 or contains the query, and
\* (when truncation drops nothing) every path in scope that does is returned.
C8_MatchCondition ==
    \A t \in cfg.tasks :
        SearchOk(t) =>
            LET q == task[t].req.query
                names == ListNames(task[t].ret.list)
                scope == UNION {DOMAIN crates[n].path_to_id : n \in InScope(t)}
            IN  /\ names \subseteq scope
                /\ \A p \in names : ScoreAbove(q, p) \/ Substring(p, q)
                /\ \A p \in scope \ names :
                        Len(task[t].ret.list) < MaxResults
                            => ~ScoreAbove(q, p) /\ ~Substring(p, q)

\* C8 witness: lib::Point, which contains the query "Point" but scores
\* below the threshold, is returned, and lib, which does neither, is not
C8_Witness ==
    \E t \in cfg.tasks :
        /\ SearchOk(t)
        /\ task[t].req.query = s_Point
        /\ s_lib \in InScope(t)
        /\ JoinPath(s_lib, s_Point) \in ListNames(task[t].ret.list)
        /\ ~ScoreAbove(s_Point, JoinPath(s_lib, s_Point))
        /\ s_lib \notin ListNames(task[t].ret.list)

\* C9 (as stated): with lib::Point in scope, the queries "Point" and "Pont"
\* both return lib::Point, and a query near no path returns the empty list.
C9_TypoInNameFindsPoint ==
    \A t \in cfg.tasks :
        (SearchOk(t) /\ s_lib \in InScope(t)) =>
            /\ task[t].req.query \in {s_Point, s_Pont}
                    => JoinPath(s_lib, s_Point) \in ListNames(task[t].ret.list)
            /\ task[t].req.query = s_Zyx => task[t].ret.list = <<>>

\* C9 (amended): "Point" returns lib::Point as a substring match; "Pont"
\* does not, its similarity to the whole path lib::Point being 0; the typo
\* in the full path, "lib::Pont", scores above 0.8 and returns lib::Point;
\* "Zyx" returns the empty list.
C9_TypoInFullPathFindsPoint ==
    \A t \in cfg.tasks :
        (SearchOk(t) /\ s_lib \in InScope(t)) =>
            LET q == task[t].req.query
                names == ListNames(task[t].ret.list)
                LibPoint == JoinPath(s_lib, s_Point)
            IN  /\ q = s_Point => LibPoint \in names /\ ~ScoreAbove(q, LibPoint)
                /\ q = s_Pont =>
                        /\ LibPoint \notin names
                        /\ JaroWinkler(q, LibPoint).n = 0
                        /\ task[t].ret.list = <<>>
                /\ q = JoinPath(s_lib, s_Pont) =>
                        LibPoint \in names /\ ScoreAbove(q, LibPoint)
                /\ q = s_Zyx => task[t].ret.list = <<>>

\* C9 witness: the query "lib::Pont" has returned lib::Point
C9_Witness ==
    \E t \in cfg.tasks :
        /\ SearchOk(t)
        /\ task[t].req.query = JoinPath(s_lib, s_Pont)
        /\ JoinPath(s_lib, s_Point) \in ListNames(task[t].ret.list)
        /\ ~Substring(JoinPath(s_lib, s_Point), task[t].req.query)

\* C10: a finished search has failed exactly when its scope library was not
\* cached and the load failed; the error is a load error and comes without
\* a list; a search that loaded nothing or whose load went through returns
\* a list, the empty one when nothing matches.
C10_SearchFailsOnlyOnLoad ==
    \A t \in cfg.tasks :
        (Done(t) /\ task[t].req.op = "search") =>
            /\ task[t].ret.st \in {"ok", "err"}
            /\ task[t].ret.st = "err" <=>
                    /\ task[t].req.scope.some
                    /\ ~task[t].hit
                    /\ "insert" \notin task[t].work
            /\ task[t].ret.st = "err" =>
                    /\ task[t].ret.err \in LoadErrors
                    /\ task[t].ret.list = <<>>
                    /\ task[t].seen0 = {}
            /\ (task[t].ret.st = "ok"
                    /\ MatchingPairs(DOMAIN crates, task[t].req.query) = {})
                    => task[t].ret.list = <<>>

\* C10 witness: one search has failed on its load while another, whose
\* query matches nothing in the loaded library, has returned the empty list
C10_Witness ==
    \E t, u \in cfg.tasks :
        /\ Done(t) /\ task[t].req.op = "search" /\ task[t].ret.st = "err"
        /\ SearchOk(u)
        /\ task[u].req.query = s_Zyx
        /\ task[u].searched # {}
        /\ task[u].ret.list = <<>>

(***************************************************************************)
(* The path indexer as a function of the graph                             *)
(***************************************************************************)
s_m == <<"m">>

\* child lists of the root module: the record (2), the module m (1), an
\* unnamed re-export (5), an unnamed module that lists the record (6), a
\* dangling identifier (9), the root itself (0)
IndexChildren0 ==
    {<<>>, <<2>>, <<1>>, <<1, 2>>, <<5, 9, 2>>, <<1, 5, 9>>, <<6, 1>>, <<0>>,
     <<2, 1, 0>>}

\* child lists of the module m: the same, and m itself (1)
IndexChildren1 ==
    {<<>>, <<2>>, <<5>>, <<9>>, <<6>>, <<2, 9, 5>>, <<1>>, <<0>>}

StructKinds == {"Unit", "Tuple", "Plain"}

\* the record Point with the fields x (3) and y (4), in each shape
PointStruct(kind) ==
    IF kind = "Unit" THEN StructUnit(<<>>)
    ELSE IF kind = "Tuple" THEN StructTuple(<<Some(3), None, Some(4)>>, <<>>)
    ELSE StructPlain(<<3, 4>>, <<>>)

\* a graph named lib: root module 0, module m, record Point, its fields,
\* an unnamed re-export and an unnamed module
IndexGraph(root, c0, c1, kind) ==
    [root |-> root, order |-> FirstOrder,
     index |->
        (0 :> Item(0, Some(s_lib), Module(c0)) @@
         1 :> Item(1, Some(s_m), Module(c1)) @@
         2 :> Item(2, Some(s_Point), PointStruct(kind)) @@
         3 :> Item(3, Some(s_x), StructField(Primitive(Str.i32))) @@
         4 :> Item(4, Some(s_y), StructField(Primitive(Str.i32))) @@
         5 :> Item(5, None, Use(s_Vec)) @@
         6 :> Item(6, None, Module(<<2>>)))]

\* the graphs handed to the indexer: every combination of child lists and
\* record shape, and one graph whose root identifier is not in the index
IndexGraphs ==
    {IndexGraph(0, c0, c1, kind) :
        c0 \in IndexChildren0, c1 \in IndexChildren1, kind \in StructKinds}
    \cup {IndexGraph(9, <<2>>, <<>>, "Plain")}

InitIndex ==
    /\ InitState
    /\ cfg = [tasks |-> {}, names |-> {}, queries |-> {}, rots |-> {0}]
    /\ arg \in [kind : {"index"}, krate : IndexGraphs, crate_name : {s_lib}]
    /\ out = NoOut

\* build_path_map(&krate, crate_name): the traversal either returns the
\* table or exhausts the call stack (overflow)
BuildPathMap ==
    /\ arg.kind = "index"
    /\ out = NoOut
    /\ out' = <<build_path_map(arg.krate, arg.crate_name)>>
    /\ UNCHANGED <<crates, files, lock, task, calls, stats, cfg, arg>>

NextIndex == BuildPathMap

SpecIndex == InitIndex /\ [][NextIndex]_vars

\* the indexer has returned a table
Indexed == arg.kind = "index" /\ out # NoOut /\ ~out[1].overflow

\* the module child lists of the graph under test
RootLists(id) ==
    /\ arg.krate.root \in DOMAIN arg.krate.index
    /\ \E i \in 1..Len(arg.krate.index[arg.krate.root].inner.items) :
            arg.krate.index[arg.krate.root].inner.items[i] = id

\* C11: for a library lib whose root module lists a named record Point with
\* the named fields x and y (as a field list or as a tuple-positional
\* list), the table the indexer returns has the keys lib::Point,
\* lib::Point::x and lib::Point::y, mapped to the identifiers of the record
\* and of the two field items, all distinct.
C11_PointAndFieldsIndexed ==
    (Indexed /\ RootLists(2) /\ arg.krate.index[2].inner.kind # "Unit")
        => /\ {JoinPath(s_lib, s_Point),
               JoinPath(JoinPath(s_lib, s_Point), s_x),
               JoinPath(JoinPath(s_lib, s_Point), s_y)} \subseteq DOMAIN out[1].map
           /\ out[1].map[JoinPath(s_lib, s_Point)] = arg.krate.index[2].id
           /\ out[1].map[JoinPath(JoinPath(s_lib, s_Point), s_x)] = arg.krate.index[3].id
           /\ out[1].map[JoinPath(JoinPath(s_lib, s_Point), s_y)] = arg.krate.index[4].id
           /\ Cardinality({out[1].map[JoinPath(s_lib, s_Point)],
                           out[1].map[JoinPath(JoinPath(s_lib, s_Point), s_x)],
                           out[1].map[JoinPath(JoinPath(s_lib, s_Point), s_y)]}) = 3

\* the tuple-shaped record directly under the root has been indexed
C11_Witness ==
    /\ Indexed
    /\ RootLists(2)
    /\ arg.krate.index[2].inner.kind = "Tuple"
    /\ JoinPath(JoinPath(s_lib, s_Point), s_y) \in DOMAIN out[1].map

\* the chains root, c1, .., ck of at most n module children, every child
\* present in the graph and named
RECURSIVE ModuleChains(_, _)
\* the chains that extend chain c by one present, named child of its last
\* element, when that is a module
ChainChildren(krate, c) ==
    IF krate.index[c[Len(c)]].inner.tag # "Module" THEN {}
    ELSE {Append(c, krate.index[c[Len(c)]].inner.items[i]) :
            i \in {i \in 1..Len(krate.index[c[Len(c)]].inner.items) :
                    Named(krate, krate.index[c[Len(c)]].inner.items[i])}}

ExtendChains(krate, chains) ==
    chains \cup UNION {ChainChildren(krate, c) : c \in chains}

ModuleChains(krate, n) ==
    IF krate.root \notin DOMAIN krate.index THEN {}
    ELSE IF n = 0 THEN {<<krate.root>>}
    ELSE ExtendChains(krate, ModuleChains(krate, n - 1))

\* lib::n1::...::nk for the chain root, c1, .., ck
RECURSIVE ChainPath(_, _, _, _)
ChainPath(krate, crate_name, chain, k) ==
    IF k = 1 THEN crate_name
    ELSE JoinPath(ChainPath(krate, crate_name, chain, k - 1),
                  krate.index[chain[k]].name.val)

\* key is the path of a chain, or the path of a chain to a record or sum
\* type followed by the name of a present, named item
Justified(krate, crate_name, chains, key) ==
    \E c \in chains :
        \/ key = ChainPath(krate, crate_name, c, Len(c))
        \/ /\ krate.index[c[Len(c)]].inner.tag \in {"Struct", "Enum"}
           /\ \E id \in DOMAIN krate.index :
                /\ krate.index[id].name.some
                /\ key = JoinPath(ChainPath(krate, crate_name, c, Len(c)),
                                  krate.index[id].name.val)

PathTableCovers(krate, crate_name, map, chains) ==
    /\ krate.root \in DOMAIN krate.index
            => /\ crate_name \in DOMAIN map
               /\ map[crate_name] = krate.index[krate.root].id
    /\ \A c \in chains :
            /\ ChainPath(krate, crate_name, c, Len(c)) \in DOMAIN map
            /\ \E d \in chains :
                /\ ChainPath(krate, crate_name, d, Len(d))
                        = ChainPath(krate, crate_name, c, Len(c))
                /\ map[ChainPath(krate, crate_name, c, Len(c))]
                        = krate.index[d[Len(d)]].id
    /\ \A key \in DOMAIN map : Justified(krate, crate_name, chains, key)

\* C12: the table returned for a graph named lib maps lib to the root module
\* and has the key lib::n1::...::nk for every chain of module children that
\* are present and named; a child that is dangling or has no name adds no
\* key, nothing below it is indexed, and the indexer still returns.
C12_ModuleChainsIndexed ==
    Indexed =>
        PathTableCovers(arg.krate, arg.crate_name, out[1].map,
                        ModuleChains(arg.krate, Cardinality(DOMAIN arg.krate.index)))

\* a record two modules deep has been indexed past a dangling and an
\* unnamed child
C12_Witness ==
    /\ Indexed
    /\ arg.krate.index[0].inner.items = <<1, 5, 9>>
    /\ arg.krate.index[1].inner.items = <<2, 9, 5>>
    /\ JoinPath(JoinPath(s_lib, s_m), s_Point) \in DOMAIN out[1].map
    /\ Cardinality(DOMAIN out[1].map) = IF arg.krate.index[2].inner.kind = "Unit"
                                        THEN 3 ELSE 5

\* C13: the traversal of the indexer terminates on every finite graph and
\* enters no module a second time along the module descent, also when a
\* module's child list names the module itself or one of its ancestors: no
\* run of build_path_map exhausts the call stack.
C13_TraversalTerminates ==
    (arg.kind = "index" /\ out # NoOut) => ~out[1].overflow

(***************************************************************************)
(* The renderer (src/markdown.rs)                                          *)
(***************************************************************************)
\* the string literals of markdown.rs, as character sequences (the atom
\* "bq" stands for the backquote character)
Lit ==
    [impl |-> <<"i", "m", "p", "l">>,
     sp |-> <<" ">>,
     for_ |-> <<" ", "f", "o", "r", " ">>,
     unnamed |-> <<"<", "u", "n", "n", "a", "m", "e", "d", ">">>,
     Documentation |-> <<"D", "o", "c", "u", "m", "e", "n", "t", "a", "t", "i", "o", "n">>,
     Fields |-> <<"F", "i", "e", "l", "d", "s">>,
     Variants |-> <<"V", "a", "r", "i", "a", "n", "t", "s">>,
     under |-> <<"_">>,
     tick |-> <<"bq">>,
     colon |-> <<":", " ">>,
     dash |-> <<" ", "-", " ">>,
     dots |-> <<"(", ".", ".", ".", ")">>,
     braces |-> <<" ", "{", " ", ".", ".", ".", " ", "}">>,
     forlt |-> <<"f", "o", "r", "<">>,
     gtsp |-> <<">", " ">>,
     maybe |-> <<"?">>,
     tconst |-> <<"~", "c", "o", "n", "s", "t", " ">>,
     plus |-> <<" ", "+", " ">>,
     comma |-> <<",", " ">>,
     lt |-> <<"<">>,
     gt |-> <<">">>,
     eq |-> <<" ", "=", " ">>,
     const |-> <<"c", "o", "n", "s", "t", " ">>,
     async |-> <<"a", "s", "y", "n", "c", " ">>,
     unsafe |-> <<"u", "n", "s", "a", "f", "e", " ">>,
     fn |-> <<"f", "n", " ">>,
     lpar |-> <<"(">>,
     rpar |-> <<")">>,
     arrow |-> <<" ", "-", ">", " ">>,
     struct |-> <<"s", "t", "r", "u", "c", "t", " ">>,
     semi |-> <<";">>,
     tuple |-> <<"(", "/", "*", " ", ".", ".", ".", " ", "*", "/", ")", ";">>,
     union |-> <<"u", "n", "i", "o", "n", " ">>,
     enum |-> <<"e", "n", "u", "m", " ">>,
     trait |-> <<"t", "r", "a", "i", "t", " ">>,
     type |-> <<"t", "y", "p", "e", " ">>,
     elided |-> <<" ", "=", " ", ".", ".", ".", ";">>,
     static |-> <<"s", "t", "a", "t", "i", "c", " ">>,
     use |-> <<"u", "s", "e", " ">>,
     lbr |-> <<"[">>,
     rbr |-> <<"]">>,
     semisp |-> <<";", " ">>,
     amp |-> <<"&">>,
     mut |-> <<"m", "u", "t", " ">>,
     star |-> <<"*">>,
     implsp |-> <<"i", "m", "p", "l", " ">>,
     dyn |-> <<"d", "y", "n", " ">>,
     rtn |-> <<"(", ".", ".", ")">>,
     uselt |-> <<"u", "s", "e", "<">>,
     rust |-> <<"r", "u", "s", "t">>]

\* Vec<String>::join(sep)
RECURSIVE Join(_, _)
Join(strs, sep) ==
    IF strs = <<>> THEN <<>>
    ELSE IF Len(strs) = 1 THEN strs[1]
    ELSE strs[1] \o sep \o Join(Tail(strs), sep)

\* Placeholder that writes the name of the shape
PlaceholderNamesShape(ty) == <<ty.tag>>

\* line 392: `_ => "_".to_string()`
Placeholder(ty) == Lit.under

RECURSIVE format_type(_)
RECURSIVE format_path_like(_, _)
RECURSIVE format_generic_bound(_)

\* types.iter().map(format_type).collect()
FormatTypes(types) == [i \in 1..Len(types) |-> format_type(types[i])]

\* bounds.iter().map(format_generic_bound).collect()
FormatBounds(bounds) == [i \in 1..Len(bounds) |-> format_generic_bound(bounds[i])]

\* lines 451-460
format_precise_capturing_args(precise_capturing_args) ==
    Lit.uselt \o Join(precise_capturing_args, Lit.comma) \o Lit.gt

\* lines 182-192: one parameter of a `for<..>` clause
HigherRankedParam(p) ==
    IF p.kind.tag = "Lifetime" /\ p.kind.outlives # <<>>
    THEN p.name \o Lit.colon \o Join(p.kind.outlives, Lit.plus)
    ELSE p.name

\* lines 198-202
Modifier(modifier) ==
    IF modifier = "Maybe" THEN Lit.maybe
    ELSE IF modifier = "MaybeConst" THEN Lit.tconst
    ELSE <<>>

\* lines 170-212
format_generic_bound(bound) ==
    IF bound.tag = "TraitBound"
    THEN (IF bound.generic_params # <<>>
          THEN Lit.forlt
               \o Join([i \in 1..Len(bound.generic_params) |->
                            HigherRankedParam(bound.generic_params[i])], Lit.comma)
               \o Lit.gtsp
          ELSE <<>>)
         \o Modifier(bound.modifier)
         \o format_path_like(bound.trait_.path, bound.trait_.args)
    ELSE IF bound.tag = "Outlives" THEN bound.l
    ELSE format_precise_capturing_args(bound.args)

\* lines 217-253: the text of one generic parameter
GenericParam(param) ==
    IF param.kind.tag = "Lifetime"
    THEN param.name
         \o (IF param.kind.outlives # <<>>
             THEN Lit.colon \o Join(param.kind.outlives, Lit.plus) ELSE <<>>)
    ELSE IF param.kind.tag = "Type"
    THEN param.name
         \o (IF param.kind.bounds # <<>>
             THEN Lit.colon \o Join(FormatBounds(param.kind.bounds), Lit.plus)
             ELSE <<>>)
         \o (IF param.kind.default.some
             THEN Lit.eq \o format_type(param.kind.default.val) ELSE <<>>)
    ELSE Lit.const \o param.name \o Lit.colon \o format_type(param.kind.type_)
         \o (IF param.kind.default.some
             THEN Lit.eq \o param.kind.default.val ELSE <<>>)

\* line 231: synthetic type parameters are passed over
Rendered(param) == ~(param.kind.tag = "Type" /\ param.kind.is_synthetic)

\* lines 257-261
AngleList(params) ==
    IF params = <<>> THEN <<>>
    ELSE Lit.lt \o Join(params, Lit.comma) \o Lit.gt

\* the elements of s that satisfy Rendered, in order
RECURSIVE RenderedParams(_)
RenderedParams(params) ==
    IF params = <<>> THEN <<>>
    ELSE IF Rendered(Head(params))
    THEN <<GenericParam(Head(params))>> \o RenderedParams(Tail(params))
    ELSE RenderedParams(Tail(params))

\* lines 214-262
format_generics(generics) == AngleList(RenderedParams(generics.params))

\* lines 405-410
GenericArgText(a) ==
    IF a.tag = "Lifetime" THEN a.l
    ELSE IF a.tag = "Type" THEN format_type(a.type_)
    ELSE IF a.tag = "Const" THEN Lit.const \o a.expr
    ELSE Lit.under

\* lines 413-429
ConstraintText(binding) ==
    IF binding.binding.tag = "Equality"
    THEN binding.name \o Lit.eq
         \o (IF binding.binding.term.tag = "Type"
             THEN format_type(binding.binding.term.type_)
             ELSE binding.binding.term.expr)
    ELSE binding.name \o Lit.colon
         \o Join(FormatBounds(binding.binding.bounds), Lit.plus)

\* lines 396-449
format_path_like(name, args) ==
    IF ~args.some THEN name
    ELSE IF args.val.tag = "AngleBracketed"
    THEN IF args.val.args # <<>> \/ args.val.constraints # <<>>
         THEN name \o Lit.lt
              \o Join([i \in 1..Len(args.val.args) |-> GenericArgText(args.val.args[i])]
                      \o [i \in 1..Len(args.val.constraints) |->
                            ConstraintText(args.val.constraints[i])],
                      Lit.comma)
              \o Lit.gt
         ELSE name
    ELSE IF args.val.tag = "Parenthesized"
    THEN name \o Lit.lpar \o Join(FormatTypes(args.val.inputs), Lit.comma) \o Lit.rpar
         \o (IF args.val.output.some
             THEN Lit.arrow \o format_type(args.val.output.val) ELSE <<>>)
    ELSE name \o Lit.rtn

\* lines 383-387
TraitPaths(traits) ==
    [i \in 1..Len(traits) |->
        format_path_like(traits[i].trait_.path, traits[i].trait_.args)]

\* TupleText without the separator between the elements
TupleTextNoSeparator(types) == Lit.lpar \o Join(types, <<>>) \o Lit.rpar

\* line 346: format!("({})", types.join(", "))
TupleText(types) == Lit.lpar \o Join(types, Lit.comma) \o Lit.rpar

\* lines 340-394
format_type(ty) ==
    IF ty.tag = "ResolvedPath" THEN format_path_like(ty.path, ty.args)
    ELSE IF ty.tag = "Primitive" THEN ty.name
    ELSE IF ty.tag = "Tuple"
    THEN TupleText(FormatTypes(ty.types))
    ELSE IF ty.tag = "Slice" THEN Lit.lbr \o format_type(ty.type_) \o Lit.rbr
    ELSE IF ty.tag = "Array"
    THEN Lit.lbr \o format_type(ty.type_) \o Lit.semisp \o ty.len \o Lit.rbr
    ELSE IF ty.tag = "BorrowedRef"
    THEN Lit.amp
         \o (IF ty.lifetime.some THEN ty.lifetime.val \o Lit.sp ELSE <<>>)
         \o (IF ty.is_mutable THEN Lit.mut ELSE <<>>)
         \o format_type(ty.type_)
    ELSE IF ty.tag = "RawPointer"
    THEN Lit.star \o (IF ty.is_mutable THEN Lit.mut ELSE Lit.const)
         \o format_type(ty.type_)
    ELSE IF ty.tag = "Generic" THEN ty.name
    ELSE IF ty.tag = "ImplTrait"
    THEN Lit.implsp \o Join(FormatBounds(ty.bounds), Lit.plus)
    ELSE IF ty.tag = "DynTrait"
    THEN Lit.dyn
         \o (IF ty.lifetime.some THEN ty.lifetime.val \o Lit.plus ELSE <<>>)
         \o Join(TraitPaths(ty.traits), Lit.plus)
    ELSE Placeholder(ty)

(***************************************************************************)
(* The type expressions handed to format_type                              *)
(***************************************************************************)
\* longest tuple among the samples
MaxTuple == 2

BaseTypes == {Primitive(Str.i32), Primitive(Str.String), Primitive(Str.u8)}

\* the tuples of at most MaxTuple elements drawn from S
TuplesOf(S) == UNION {{Tuple(ts) : ts \in [1..n -> S]} : n \in 0..MaxTuple}

\* every wrapper around t
WrappersOf(t) ==
    {Slice(t), Array(t, Str.four), RawPointer(TRUE, t), RawPointer(FALSE, t)}
    \cup {BorrowedRef(l, m, t) : l \in {None, Some(Str.lifetime)}, m \in BOOLEAN}

CloneBound == TraitBound(Str.Clone, None, <<>>, "None")

PathTypes ==
    {ResolvedPath(Str.Vec, None),
     ResolvedPath(Str.Vec, Some(AngleBracketed(<<>>, <<>>))),
     ResolvedPath(Str.Vec, Some(AngleBracketed(
        <<[tag |-> "Type", type_ |-> Primitive(Str.u8)]>>, <<>>))),
     ResolvedPath(Str.Vec, Some(AngleBracketed(
        <<[tag |-> "Lifetime", l |-> Str.lifetime],
          [tag |-> "Const", expr |-> Str.four],
          [tag |-> "Infer"]>>,
        <<[name |-> Str.Item,
           binding |-> [tag |-> "Equality",
                        term |-> [tag |-> "Type", type_ |-> Primitive(Str.u8)]]],
          [name |-> Str.Item,
           binding |-> [tag |-> "Equality",
                        term |-> [tag |-> "Constant", expr |-> Str.four]]],
          [name |-> Str.Item,
           binding |-> [tag |-> "Constraint",
                        bounds |-> <<CloneBound, Outlives(Str.lifetime)>>]]>>))),
     ResolvedPath(Str.Tr, Some(Parenthesized(<<Primitive(Str.i32), Primitive(Str.u8)>>,
                                           Some(Primitive(Str.bool))))),
     ResolvedPath(Str.Tr, Some(Parenthesized(<<>>, None))),
     ResolvedPath(Str.Tr, Some([tag |-> "ReturnTypeNotation"]))}

BoundTypes ==
    {ImplTrait(<<CloneBound>>),
     ImplTrait(<<TraitBound(Str.Sized, None, <<>>, "Maybe"),
                 TraitBound(Str.Clone, None, <<>>, "MaybeConst"),
                 TraitBound(Str.Tr, Some(Parenthesized(<<BorrowedRef(Some(Str.lifetime), FALSE,
                                                                   Primitive(Str.u8))>>, None)),
                            <<LifetimeParam(Str.lifetime, <<>>),
                              LifetimeParam(Str.lifetime, <<Str.lifetime>>),
                              TypeParam(Str.T, <<>>, None, FALSE)>>, "None"),
                 Outlives(Str.lifetime),
                 [tag |-> "Use", args |-> <<Str.lifetime, Str.T>>]>>),
     DynTrait(None, <<[trait_ |-> [path |-> Str.Tr, args |-> None]]>>),
     DynTrait(Some(Str.lifetime), <<[trait_ |-> [path |-> Str.Tr, args |-> None]],
                                  [trait_ |-> [path |-> Str.Clone, args |-> None]]>>)}

UnknownTypes ==
    {OtherType("FunctionPointer"), OtherType("QualifiedPath"), OtherType("Pat"),
     OtherType("Infer")}

\* the type expressions handed to format_type
TypeSamples ==
    BaseTypes \cup {Generic(Str.T)} \cup PathTypes \cup BoundTypes \cup UnknownTypes
    \cup TuplesOf(BaseTypes \cup {Slice(Primitive(Str.u8)), Tuple(<<>>)})
    \cup UNION {WrappersOf(t) : t \in BaseTypes \cup TuplesOf(BaseTypes)
                                      \cup UnknownTypes}

(***************************************************************************)
(* generate_item_markdown: the document is the list of the blocks appended *)
(* to the Markdown builder, which doc.render() writes out in this order    *)
(***************************************************************************)
\* doc.header1, doc.header2, doc.paragraph of text or of a rust code block,
\* doc.list of an unordered list
Header1(text) == [block |-> "header1", text |-> text]
Header2(text) == [block |-> "header2", text |-> text]
Paragraph(text) == [block |-> "paragraph", text |-> text]
CodeBlock(text) == [block |-> "code", language |-> Lit.rust, text |-> text]
UnorderedList(items) == [block |-> "list", items |-> items]

\* markdown.rs get_item_kind, lines 141-168
KindLabel ==
    [Module |-> <<"M", "o", "d", "u", "l", "e">>,
     ExternCrate |-> <<"E", "x", "t", "e", "r", "n", " ", "C", "r", "a", "t", "e">>,
     Union |-> <<"U", "n", "i", "o", "n">>,
     Struct |-> <<"S", "t", "r", "u", "c", "t">>,
     StructField |-> <<"F", "i", "e", "l", "d">>,
     Enum |-> <<"E", "n", "u", "m">>,
     Variant |-> <<"V", "a", "r", "i", "a", "n", "t">>,
     Function |-> <<"F", "u", "n", "c", "t", "i", "o", "n">>,
     Trait |-> <<"T", "r", "a", "i", "t">>,
     TraitAlias |-> <<"T", "r", "a", "i", "t", " ", "A", "l", "i", "a", "s">>,
     Impl |-> <<"I", "m", "p", "l">>,
     TypeAlias |-> <<"T", "y", "p", "e", " ", "A", "l", "i", "a", "s">>,
     Static |-> <<"S", "t", "a", "t", "i", "c">>,
     Macro |-> <<"M", "a", "c", "r", "o">>,
     ProcMacro |-> <<"P", "r", "o", "c", " ", "M", "a", "c", "r", "o">>,
     Primitive |-> <<"P", "r", "i", "m", "i", "t", "i", "v", "e">>,
     AssocConst |-> <<"A", "s", "s", "o", "c", " ", "C", "o", "n", "s", "t", "a", "n", "t">>,
     AssocType |-> <<"A", "s", "s", "o", "c", " ", "T", "y", "p", "e">>,
     Use |-> <<"U", "s", "e">>,
     ExternType |-> <<"E", "x", "t", "e", "r", "n", " ", "T", "y", "p", "e">>,
     Constant |-> <<"C", "o", "n", "s", "t", "a", "n", "t">>]

markdown_get_item_kind(item) == KindLabel[item.inner.tag]

\* the elements of a sequence
Range(s) == {s[i] : i \in 1..Len(s)}

\* lines 9-15: the first implementation block, in the iteration order of
\* the index, whose member list contains id
RECURSIVE FindImpl(_, _, _, _)
FindImpl(krate, keys, i, id) ==
    IF i > Len(keys) THEN None
    ELSE IF krate.index[keys[i]].inner.tag = "Impl"
            /\ id \in Range(krate.index[keys[i]].inner.items)
    THEN Some(krate.index[keys[i]])
    ELSE FindImpl(krate, keys, i + 1, id)

find_parent_impl(krate, id) ==
    FindImpl(krate, IterOrder(DOMAIN krate.index, krate.order), 1, id)

\* lines 18-30
format_impl_header(impl_) ==
    Lit.impl \o format_generics(impl_.generics) \o Lit.sp
    \o (IF impl_.trait_.some
        THEN format_path_like(impl_.trait_.val.path, impl_.trait_.val.args) \o Lit.for_
        ELSE <<>>)
    \o format_type(impl_.for_)

\* Qualifiers that writes unsafe before const and async
QualifiersUnsafeFirst(header) ==
    (IF header.is_unsafe THEN Lit.unsafe ELSE <<>>)
    \o (IF header.is_const THEN Lit.const ELSE <<>>)
    \o (IF header.is_async THEN Lit.async ELSE <<>>)

\* lines 270-278: the qualifiers that are set
Qualifiers(header) ==
    (IF header.is_const THEN Lit.const ELSE <<>>)
    \o (IF header.is_async THEN Lit.async ELSE <<>>)
    \o (IF header.is_unsafe THEN Lit.unsafe ELSE <<>>)

\* lines 288-293
FormatInputs(inputs) ==
    [i \in 1..Len(inputs) |->
        inputs[i].name \o Lit.colon \o format_type(inputs[i].type_)]

\* StructSuffix that writes a tuple shape like a field shape
StructSuffixTupleAsPlain(kind) ==
    IF kind = "Unit" THEN Lit.semi ELSE Lit.braces

\* lines 305-315
StructSuffix(kind) ==
    IF kind = "Unit" THEN Lit.semi
    ELSE IF kind = "Tuple" THEN Lit.tuple
    ELSE Lit.braces

\* lines 264-338, for the item name `name`
ItemDefinition(name, inner) ==
    IF inner.tag = "Function"
    THEN Qualifiers(inner.header) \o Lit.fn \o name \o format_generics(inner.generics)
         \o Lit.lpar \o Join(FormatInputs(inner.sig.inputs), Lit.comma) \o Lit.rpar
         \o (IF inner.sig.output.some
             THEN Lit.arrow \o format_type(inner.sig.output.val) ELSE <<>>)
    ELSE IF inner.tag = "Struct"
    THEN Lit.struct \o name \o format_generics(inner.generics) \o StructSuffix(inner.kind)
    ELSE IF inner.tag = "Union"
    THEN Lit.union \o name \o format_generics(inner.generics) \o Lit.braces
    ELSE IF inner.tag = "Enum"
    THEN Lit.enum \o name \o format_generics(inner.generics)
    ELSE IF inner.tag = "Trait"
    THEN Lit.trait \o name \o format_generics(inner.generics)
    ELSE IF inner.tag = "TypeAlias"
    THEN Lit.type \o name \o format_generics(inner.generics) \o Lit.eq
         \o format_type(inner.type_) \o Lit.semi
    ELSE IF inner.tag = "Constant"
    THEN Lit.const \o name \o Lit.colon \o format_type(inner.type_) \o Lit.elided
    ELSE IF inner.tag = "Static"
    THEN Lit.static \o name \o Lit.colon \o format_type(inner.type_) \o Lit.elided
    ELSE IF inner.tag = "Use"
    THEN Lit.use \o inner.source \o Lit.semi
    ELSE <<>>

\* item.name.as_deref().unwrap_or(default)
NameOr(item, default) == IF item.name.some THEN item.name.val ELSE default

format_item_definition(item) == ItemDefinition(NameOr(item, <<>>), item.inner)

\* the characters str::trim removes
Whitespace == {" ", "\t", "\n", "\r"}

\* FirstLine keeping the whole text
FirstLineWhole(d) == d

\* d.lines().next().unwrap_or(""): the text before the first line feed
FirstLine(d) ==
    SubSeq(d, 1, Least({i \in 1..Len(d) : d[i] = "\n"} \cup {Len(d) + 1}) - 1)

\* str::trim
Trim(s) ==
    IF \A i \in 1..Len(s) : s[i] \in Whitespace THEN <<>>
    ELSE SubSeq(s, Least({i \in 1..Len(s) : s[i] \notin Whitespace}),
                Greatest({i \in 1..Len(s) : s[i] \notin Whitespace}))

\* lines 83-89, 121-127: " - " and the trimmed first line of the
\* documentation, when that is not empty
DocSuffix(docs) ==
    IF docs.some /\ Trim(FirstLine(docs.val)) # <<>>
    THEN Lit.dash \o Trim(FirstLine(docs.val))
    ELSE <<>>

\* lines 79-89
FieldLine(field) ==
    Lit.tick \o NameOr(field, Lit.under) \o Lit.colon
    \o format_type(field.inner.type_) \o Lit.tick \o DocSuffix(field.docs)

\* lines 75-92: one line for every field that is present in the index and
\* is a struct field
RECURSIVE FieldLines(_, _)
FieldLines(krate, fields) ==
    IF fields = <<>> THEN <<>>
    ELSE IF Head(fields) \in DOMAIN krate.index
            /\ krate.index[Head(fields)].inner.tag = "StructField"
    THEN <<FieldLine(krate.index[Head(fields)])>> \o FieldLines(krate, Tail(fields))
    ELSE FieldLines(krate, Tail(fields))

\* lines 107-119
VariantSuffix(inner) ==
    IF inner.tag # "Variant" THEN <<>>
    ELSE IF inner.kind = "Tuple" THEN (IF inner.types # <<>> THEN Lit.dots ELSE <<>>)
    ELSE IF inner.kind = "Struct" THEN Lit.braces
    ELSE <<>>

\* lines 103-127
VariantLine(variant) ==
    Lit.tick \o NameOr(variant, Lit.under) \o Lit.tick
    \o VariantSuffix(variant.inner) \o DocSuffix(variant.docs)

\* lines 101-130: one line for every variant that is present in the index
RECURSIVE VariantLines(_, _)
VariantLines(krate, variants) ==
    IF variants = <<>> THEN <<>>
    ELSE IF Head(variants) \in DOMAIN krate.index
    THEN <<VariantLine(krate.index[Head(variants)])>>
         \o VariantLines(krate, Tail(variants))
    ELSE VariantLines(krate, Tail(variants))

\* lines 68-136: the section that depends on the kind
Details(inner, krate) ==
    IF inner.tag = "Struct" /\ inner.kind = "Plain" /\ inner.ids # <<>>
    THEN <<Header2(Lit.Fields), UnorderedList(FieldLines(krate, inner.ids))>>
    ELSE IF inner.tag = "Enum" /\ inner.variants # <<>>
    THEN <<Header2(Lit.Variants), UnorderedList(VariantLines(krate, inner.variants))>>
    ELSE <<>>

\* lines 35-42
TitleName(item) ==
    IF item.name.some THEN item.name.val
    ELSE IF item.inner.tag = "Use" THEN item.inner.name
    ELSE Lit.unnamed

\* lines 47-52
ImplContext(parent) ==
    IF parent.some THEN <<CodeBlock(format_impl_header(parent.val.inner))>> ELSE <<>>

\* DefinitionBlock that emits the code block also for an empty definition
DefinitionBlockAlways(definition) == <<CodeBlock(definition)>>

\* lines 55-59
DefinitionBlock(definition) ==
    IF definition # <<>> THEN <<CodeBlock(definition)>> ELSE <<>>

\* lines 62-65
Documentation(docs) ==
    IF docs.some THEN <<Header2(Lit.Documentation), Paragraph(docs.val)>> ELSE <<>>

\* lines 32-139
generate_item_markdown(item, krate) ==
    <<Header1(markdown_get_item_kind(item) \o Lit.sp \o TitleName(item))>>
    \o ImplContext(find_parent_impl(krate, item.id))
    \o DefinitionBlock(format_item_definition(item))
    \o Documentation(item.docs)
    \o Details(item.inner, krate)

(***************************************************************************)
(* The items and graphs handed to generate_item_markdown                   *)
(***************************************************************************)
\* documentation texts
Docs ==
    [one |-> <<"o", "n", "e", " ", "l", "i", "n", "e">>,
     two |-> <<"f", "i", "r", "s", "t", "\n", "s", "e", "c", "o", "n", "d">>,
     blank |-> <<" ", "\n", "s", "e", "c", "o", "n", "d">>,
     padded |-> <<" ", " ", "p", "a", "d", "d", "e", "d", "\t">>,
     empty |-> <<>>]

\* none; <T>; <'a, T: Clone + 'a = u8, const N: u8 = 4> with a synthetic
\* parameter in between; only a synthetic parameter
GenericsSamples ==
    {NoGenerics,
     [params |-> <<TypeParam(Str.T, <<>>, None, FALSE)>>],
     [params |-> <<LifetimeParam(Str.lifetime, <<>>),
                   TypeParam(Str.U, <<>>, None, TRUE),
                   TypeParam(Str.T, <<CloneBound, Outlives(Str.lifetime)>>,
                             Some(Primitive(Str.u8)), FALSE),
                   ConstParam(Str.N, Primitive(Str.u8), Some(Str.four))>>],
     [params |-> <<TypeParam(Str.U, <<CloneBound>>, None, TRUE)>>]}

\* parameter lists of the functions rendered
InputLists ==
    {<<>>,
     <<Param(Str.arg1, Primitive(Str.i32))>>,
     <<Param(Str.b, BorrowedRef(None, FALSE, Primitive(Str.str))),
       Param(Str.a, Tuple(<<Primitive(Str.i32), Primitive(Str.String)>>))>>}

\* the functions: every combination of qualifiers, generics, parameters
\* and return type; identifier 5 is a member of two implementation blocks
FunctionItems ==
    {Item(5, Some(Str.my_fn),
          Function(FunctionHeader(c, a, u), g, inputs, output)) :
        c \in BOOLEAN, a \in BOOLEAN, u \in BOOLEAN, g \in GenericsSamples,
        inputs \in InputLists, output \in {None, Some(Primitive(Str.bool))}}

\* the shapes of the records rendered: fields 10..16 are in the graph, 99
\* is dangling, 15 is a function
StructShapes ==
    {StructUnit(<<>>), StructTuple(<<>>, <<>>), StructTuple(<<Some(10), None>>, <<>>),
     StructPlain(<<>>, <<>>), StructPlain(<<10>>, <<>>),
     StructPlain(<<10, 11, 12>>, <<20>>),
     StructPlain(<<13, 14, 99, 15, 16>>, <<>>), StructPlain(<<99>>, <<>>)}

StructItems ==
    {Item(7, Some(n), WithGenerics(shape, g)) :
        n \in {Str.Marker, Str.MyStruct}, shape \in StructShapes,
        g \in {NoGenerics, [params |-> <<TypeParam(Str.T, <<>>, None, FALSE)>>]}}

EnumItems ==
    {Item(7, Some(Str.E), Enum(variants, <<>>)) :
        variants \in {<<>>, <<40>>, <<40, 41, 99, 42, 43, 10>>}}

\* one payload of every kind of ItemEnum
KindSamples ==
    {Module(<<10>>), Leaf("ExternCrate"),
     GenericItem("Union", [params |-> <<TypeParam(Str.T, <<>>, None, FALSE)>>]),
     StructUnit(<<>>), StructField(Primitive(Str.u8)), Enum(<<>>, <<>>),
     Variant("Plain", <<>>), PlainFn, GenericItem("Trait", NoGenerics),
     Leaf("TraitAlias"), Impl(<<>>),
     TypeAlias(NoGenerics, Slice(Primitive(Str.u8))), TypedItem("Static", Primitive(Str.u8)),
     Leaf("Macro"), Leaf("ProcMacro"), Leaf("Primitive"), Leaf("AssocConst"),
     Leaf("AssocType"), UseFrom(Str.Vec, JoinPath(s_oth, Str.Vec)), Leaf("ExternType"),
     TypedItem("Constant", Array(Primitive(Str.u8), Str.four))}

\* items of every kind: named or not, documented or not, member of two
\* implementation blocks (5), of one (30) or of none (7)
KindItems ==
    {Item(id, name, inner) :
        id \in {5, 30, 7}, name \in {None, Some(Str.K)}, inner \in KindSamples}
    \cup {WithDocs(Item(7, Some(Str.K), inner), Docs.two) : inner \in KindSamples}

RenderItems == FunctionItems \cup StructItems \cup EnumItems \cup KindItems

\* the index of the graph the items are rendered from
RenderIndex ==
    (10 :> Item(10, Some(s_x), StructField(Primitive(Str.i32))) @@
     11 :> WithDocs(Item(11, Some(s_y), StructField(Primitive(Str.String))), Docs.one) @@
     12 :> WithDocs(Item(12, Some(Str.a),
                         StructField(Tuple(<<Primitive(Str.i32), Primitive(Str.String)>>))),
                    Docs.two) @@
     13 :> WithDocs(Item(13, None, StructField(Primitive(Str.u8))), Docs.blank) @@
     14 :> WithDocs(Item(14, Some(Str.b), StructField(Slice(Primitive(Str.u8)))),
                    Docs.padded) @@
     15 :> Item(15, Some(Str.my_fn), PlainFn) @@
     16 :> WithDocs(Item(16, Some(Str.N), StructField(OtherType("Infer"))), Docs.empty) @@
     20 :> Item(20, None, Impl(<<5, 30>>)) @@
     21 :> Item(21, None,
                ImplFor(<<5>>, [params |-> <<TypeParam(Str.T, <<CloneBound>>, None, FALSE)>>],
                        Some([path |-> Str.Tr,
                              args |-> Some(AngleBracketed(
                                <<[tag |-> "Type", type_ |-> Primitive(Str.u8)]>>, <<>>))]),
                        ResolvedPath(Str.Vec, Some(AngleBracketed(
                                <<[tag |-> "Type", type_ |-> Generic(Str.T)]>>, <<>>))))) @@
     40 :> Item(40, Some(Str.a), Variant("Plain", <<>>)) @@
     41 :> WithDocs(Item(41, Some(Str.b), Variant("Tuple", <<Primitive(Str.u8)>>)), Docs.two) @@
     42 :> Item(42, None, Variant("Struct", <<>>)) @@
     43 :> WithDocs(Item(43, Some(Str.N), Variant("Tuple", <<>>)), Docs.blank))

\* the graph, with its index iterated in the given order
RenderGraph(order) == [root |-> 0, order |-> order, index |-> RenderIndex]

\* the graph of the unit tests: no items
EmptyGraph == [root |-> 0, order |-> FirstOrder, index |-> [id \in {} |-> 0]]

RenderGraphs == {RenderGraph(o) : o \in Orders(0..MaxRot)} \cup {EmptyGraph}

\* number of times the same item is rendered from the same graph
MaxRenders == 2

InitRender ==
    /\ InitState
    /\ cfg = [tasks |-> {}, names |-> {}, queries |-> {}, rots |-> {0}]
    /\ arg \in [kind : {"render"}, item : RenderItems, krate : RenderGraphs]
               \cup [kind : {"type"}, ty : TypeSamples]
    /\ out = NoOut

\* RenderCall that rebuilds the index of the graph, which reverses the
\* order of its iteration
RenderCallRehashes(st) ==
    [arg |-> [st.arg EXCEPT !.krate.order.rev = ~@],
     out |-> Append(st.out, generate_item_markdown(st.arg.item, st.arg.krate))]

\* one call generate_item_markdown(&item, &krate): the inputs are borrowed
\* and stay as they are
RenderCall(st) ==
    [arg |-> st.arg,
     out |-> Append(st.out, generate_item_markdown(st.arg.item, st.arg.krate))]

Render ==
    /\ arg.kind = "render"
    /\ Len(out) < MaxRenders
    /\ \E st \in {RenderCall([arg |-> arg, out |-> out])} :
            /\ arg' = st.arg
            /\ out' = st.out
    /\ UNCHANGED <<crates, files, lock, task, calls, stats, cfg>>

FormatType ==
    /\ arg.kind = "type"
    /\ out = NoOut
    /\ out' = <<format_type(arg.ty)>>
    /\ UNCHANGED <<crates, files, lock, task, calls, stats, cfg, arg>>

NextRender == Render \/ FormatType

SpecRender == InitRender /\ [][NextRender]_vars

(***************************************************************************)
(* Properties of the renderer                                              *)
(***************************************************************************)
\* C16: a type expression renders by its structure: a primitive as its
\* name, a tuple as its rendered elements joined by ", " inside
\* parentheses (the empty tuple as "()"), a slice as the rendered element
\* inside square brackets, a fixed array as "[type; length]"; the tuple
\* (i32, String) renders as "(i32, String)" and the slice of u8 as "[u8]".
C16_TypeRendering ==
    (arg.kind = "type" /\ out # NoOut) =>
        /\ arg.ty.tag = "Primitive" => out[1] = arg.ty.name
        /\ arg.ty.tag = "Tuple" =>
              out[1] = <<"(">> \o Join(FormatTypes(arg.ty.types), <<",", " ">>) \o <<")">>
        /\ arg.ty = Tuple(<<>>) => out[1] = <<"(", ")">>
        /\ arg.ty.tag = "Slice" =>
              out[1] = <<"[">> \o format_type(arg.ty.type_) \o <<"]">>
        /\ arg.ty.tag = "Array" =>
              out[1] = <<"[">> \o format_type(arg.ty.type_) \o <<";", " ">>
                       \o arg.ty.len \o <<"]">>
        /\ arg.ty = Tuple(<<Primitive(Str.i32), Primitive(Str.String)>>) =>
              out[1] = <<"(", "i", "3", "2", ",", " ", "S", "t", "r", "i", "n", "g", ")">>
        /\ arg.ty = Slice(Primitive(Str.u8)) => out[1] = <<"[", "u", "8", "]">>
        /\ arg.ty = Array(Tuple(<<>>), Str.four) => out[1] = <<"[", "(", ")", ";", " ", "4", "]">>

C16_Witness ==
    /\ arg.kind = "type"
    /\ arg.ty = Tuple(<<Primitive(Str.i32), Primitive(Str.String)>>)
    /\ out = <<<<"(", "i", "3", "2", ",", " ", "S", "t", "r", "i", "n", "g", ")">>>>

CodeTexts(doc) ==
    [i \in 1..Len(SelectSeq(doc, LAMBDA b : b.block = "code")) |->
        SelectSeq(doc, LAMBDA b : b.block = "code")[i].text]

\* the blocks of a document after the title and the header of the parent
\* implementation block
AfterContext(doc, item, krate) ==
    SubSeq(doc, IF find_parent_impl(krate, item.id).some THEN 3 ELSE 2, Len(doc))

\* C17: the signature of a record is "struct " + name + generics followed
\* by ";" for a unit shape, "(/* ... */);" for a tuple shape and " { ... }"
\* for a field shape, whatever its fields: they appear in no code block.
C17_StructSignature ==
    (arg.kind = "render" /\ arg.item.inner.tag = "Struct" /\ out # NoOut) =>
        /\ CodeTexts(AfterContext(out[1], arg.item, arg.krate)) =
              << <<"s", "t", "r", "u", "c", "t", " ">>
                 \o (IF arg.item.name.some THEN arg.item.name.val ELSE <<>>)
                 \o format_generics(arg.item.inner.generics)
                 \o (CASE arg.item.inner.kind = "Unit" -> <<";">>
                       [] arg.item.inner.kind = "Tuple" -> <<"(", "/", "*", " ", ".", ".", ".", " ", "*", "/", ")", ";">>
                       [] arg.item.inner.kind = "Plain" -> <<" ", "{", " ", ".", ".", ".", " ", "}">>) >>
        /\ (arg.item.name = Some(Str.Marker) /\ arg.item.inner = StructUnit(<<>>)) =>
              CodeTexts(out[1]) = << <<"s", "t", "r", "u", "c", "t", " ", "M", "a", "r", "k", "e", "r", ";">> >>
        /\ (arg.item.name = Some(Str.MyStruct) /\ arg.item.inner.kind = "Plain"
            /\ arg.item.inner.generics = NoGenerics) =>
              CodeTexts(out[1]) = << <<"s", "t", "r", "u", "c", "t", " ", "M", "y", "S", "t", "r", "u", "c", "t", " ", "{", " ", ".", ".", ".", " ", "}">> >>
        /\ (arg.item.name = Some(Str.MyStruct) /\ arg.item.inner.kind = "Tuple"
            /\ arg.item.inner.generics # NoGenerics) =>
              CodeTexts(out[1]) = << <<"s", "t", "r", "u", "c", "t", " ", "M", "y", "S", "t", "r", "u", "c", "t", "<", "T", ">", "(", "/", "*", " ", ".", ".", ".", " ", "*", "/", ")", ";">> >>

\* a field-shaped record with three fields has been rendered
C17_Witness ==
    /\ arg.kind = "render"
    /\ arg.item.name = Some(Str.MyStruct)
    /\ arg.item.inner = StructPlain(<<10, 11, 12>>, <<20>>)
    /\ arg.krate.index = RenderIndex
    /\ out # NoOut
    /\ CodeTexts(out[1]) = << <<"s", "t", "r", "u", "c", "t", " ", "M", "y", "S", "t", "r", "u", "c", "t", " ", "{", " ", ".", ".", ".", " ", "}">> >>
    /\ Len(out[1][Len(out[1])].items) = 3

\* C18: the signature of a function is the qualifiers that are set among
\* const, async, unsafe, in this order, "fn", the name, the generic
\* parameters, the parameters as "name: type" joined by ", " inside
\* parentheses in the order of declaration, and " -> type" exactly when
\* there is a return type.
C18_FunctionSignature ==
    (arg.kind = "render" /\ arg.item.inner.tag = "Function" /\ out # NoOut) =>
        /\ CodeTexts(AfterContext(out[1], arg.item, arg.krate)) =
              << (IF arg.item.inner.header.is_const THEN <<"c", "o", "n", "s", "t", " ">> ELSE <<>>)
                 \o (IF arg.item.inner.header.is_async THEN <<"a", "s", "y", "n", "c", " ">> ELSE <<>>)
                 \o (IF arg.item.inner.header.is_unsafe THEN <<"u", "n", "s", "a", "f", "e", " ">> ELSE <<>>)
                 \o <<"f", "n", " ">>
                 \o (IF arg.item.name.some THEN arg.item.name.val ELSE <<>>)
                 \o format_generics(arg.item.inner.generics)
                 \o <<"(">>
                 \o Join([i \in 1..Len(arg.item.inner.sig.inputs) |->
                            arg.item.inner.sig.inputs[i].name \o <<":", " ">>
                            \o format_type(arg.item.inner.sig.inputs[i].type_)],
                         <<",", " ">>)
                 \o <<")">>
                 \o (IF arg.item.inner.sig.output.some
                     THEN <<" ", "-", ">", " ">>
                          \o format_type(arg.item.inner.sig.output.val)
                     ELSE <<>>) >>
        /\ arg.item.inner =
              Function(FunctionHeader(FALSE, FALSE, FALSE), NoGenerics,
                       <<Param(Str.arg1, Primitive(Str.i32))>>, Some(Primitive(Str.bool))) =>
              CodeTexts(AfterContext(out[1], arg.item, arg.krate)) =
                  << <<"f", "n", " ", "m", "y", "_", "f", "n", "(", "a", "r", "g", "1", ":", " ", "i", "3", "2", ")", " ", "-", ">", " ", "b", "o", "o", "l">> >>
        /\ arg.item.inner =
              Function(FunctionHeader(TRUE, TRUE, TRUE),
                       [params |-> <<TypeParam(Str.T, <<>>, None, FALSE)>>],
                       <<Param(Str.b, BorrowedRef(None, FALSE, Primitive(Str.str))),
                         Param(Str.a, Tuple(<<Primitive(Str.i32), Primitive(Str.String)>>))>>,
                       None) =>
              CodeTexts(AfterContext(out[1], arg.item, arg.krate)) =
                  << <<"c", "o", "n", "s", "t", " ", "a", "s", "y", "n", "c", " ", "u", "n", "s", "a", "f", "e", " ", "f", "n", " ", "m", "y", "_", "f", "n", "<", "T", ">", "(", "b", ":", " ", "&", "s", "t", "r", ",", " ", "a", ":", " ", "(", "i", "3", "2", ",", " ", "S", "t", "r", "i", "n", "g", ")", ")">> >>

\* a function with the three qualifiers, generics, two parameters and a
\* return type has been rendered
C18_Witness ==
    /\ arg.kind = "render"
    /\ arg.item.inner.tag = "Function"
    /\ arg.item.name = Some(Str.my_fn)
    /\ arg.krate = EmptyGraph
    /\ out # NoOut
    /\ CodeTexts(out[1]) =
          << <<"c", "o", "n", "s", "t", " ", "a", "s", "y", "n", "c", " ", "u", "n", "s", "a", "f", "e", " ", "f", "n", " ", "m", "y", "_", "f", "n", "<", "T", ">", "(", "b", ":", " ", "&", "s", "t", "r", ",", " ", "a", ":", " ", "(", "i", "3", "2", ",", " ", "S", "t", "r", "i", "n", "g", ")", ")", " ", "-", ">", " ", "b", "o", "o", "l">> >>

\* the kinds of item with an arm in format_item_definition
SignatureKinds ==
    {"Function", "Struct", "Union", "Enum", "Trait", "TypeAlias", "Constant",
     "Static", "Use"}

\* C19 (amended): one signature code block is emitted for an item of kind
\* function, record, union, sum type, interface, type alias, constant,
\* static or re-export, and none for an item of any other kind; the
\* signature of a union is "union " + name + generics + " { ... }".
C19_SignatureKinds ==
    (arg.kind = "render" /\ out # NoOut) =>
        /\ Len(CodeTexts(AfterContext(out[1], arg.item, arg.krate))) =
              (IF arg.item.inner.tag \in SignatureKinds THEN 1 ELSE 0)
        /\ arg.item.inner.tag = "Union" =>
              CodeTexts(AfterContext(out[1], arg.item, arg.krate)) =
                  << <<"u", "n", "i", "o", "n", " ">>
                     \o (IF arg.item.name.some THEN arg.item.name.val ELSE <<>>)
                     \o format_generics(arg.item.inner.generics)
                     \o <<" ", "{", " ", ".", ".", ".", " ", "}">> >>

\* a union has been rendered, with its signature
C19_Witness ==
    /\ arg.kind = "render"
    /\ arg.item.inner.tag = "Union"
    /\ arg.item.name = Some(Str.K)
    /\ arg.item.id = 7
    /\ out # NoOut
    /\ CodeTexts(out[1]) = << <<"u", "n", "i", "o", "n", " ", "K", "<", "T", ">", " ", "{", " ", ".", ".", ".", " ", "}">> >>

\* C19 as stated: a signature code block is emitted only for function,
\* record, sum type, interface, type alias, constant, static and re-export;
\* for every other kind, union included, none is emitted.
C19_NoSignatureForUnion ==
    (arg.kind = "render" /\ out # NoOut) =>
        (CodeTexts(AfterContext(out[1], arg.item, arg.krate)) # <<>>
            <=> arg.item.inner.tag \in {"Function", "Struct", "Enum", "Trait",
                                        "TypeAlias", "Constant", "Static", "Use"})

\* the Fields section of a document: the blocks from the heading "Fields" on
FieldsSection(doc) ==
    IF \E k \in 1..Len(doc) : doc[k] = Header2(<<"F", "i", "e", "l", "d", "s">>)
    THEN SubSeq(doc, CHOOSE k \in 1..Len(doc) : doc[k] = Header2(<<"F", "i", "e", "l", "d", "s">>), Len(doc))
    ELSE <<>>

\* C20 (amended): the Fields section of a field-shaped record with at least
\* one field is the heading and one list with, for every field identifier
\* that the graph resolves to a field, in order, the bullet "`name: type`"
\* ("_" for a missing name), followed by " - " (space, hyphen, space) and
\* the first line of the documentation, trimmed, when that is not empty;
\* identifiers that are dangling or resolve to another kind give no bullet,
\* lines after the first never appear, and the section is absent for
\* unit-shaped, tuple-shaped and empty field-shaped records.
C20_FieldBullets ==
    (arg.kind = "render" /\ arg.item.inner.tag = "Struct" /\ out # NoOut) =>
        /\ (arg.item.inner.kind # "Plain" \/ arg.item.inner.ids = <<>>) =>
              /\ FieldsSection(out[1]) = <<>>
              /\ \A k \in 1..Len(out[1]) : out[1][k].block # "list"
        /\ (arg.item.inner.kind = "Plain" /\ arg.item.inner.ids # <<>>) =>
              /\ Len(FieldsSection(out[1])) = 2
              /\ FieldsSection(out[1])[2].block = "list"
              /\ Len(SelectSeq(out[1], LAMBDA b : b.block = "list")) = 1
        /\ (arg.item.inner.kind = "Plain" /\ arg.krate = EmptyGraph) =>
              \A k \in 1..Len(out[1]) :
                  out[1][k].block = "list" => out[1][k].items = <<>>
        /\ (arg.item.inner.kind = "Plain" /\ arg.krate.index = RenderIndex) =>
              \A k \in 1..Len(out[1]) :
                  out[1][k].block = "list" =>
                      out[1][k].items =
                          CASE arg.item.inner.ids = <<10>> -> << <<"bq", "x", ":", " ", "i", "3", "2", "bq">> >>
                            [] arg.item.inner.ids = <<10, 11, 12>> ->
                                  << <<"bq", "x", ":", " ", "i", "3", "2", "bq">>,
                                     <<"bq", "y", ":", " ", "S", "t", "r", "i", "n", "g", "bq", " ", "-", " ", "o", "n", "e", " ", "l", "i", "n", "e">>,
                                     <<"bq", "a", ":", " ", "(", "i", "3", "2", ",", " ", "S", "t", "r", "i", "n", "g", ")", "bq", " ", "-", " ", "f", "i", "r", "s", "t">> >>
                            [] arg.item.inner.ids = <<13, 14, 99, 15, 16>> ->
                                  << <<"bq", "_", ":", " ", "u", "8", "bq">>,
                                     <<"bq", "b", ":", " ", "[", "u", "8", "]", "bq", " ", "-", " ", "p", "a", "d", "d", "e", "d">>,
                                     <<"bq", "N", ":", " ", "_", "bq">> >>
                            [] arg.item.inner.ids = <<99>> -> <<>>

\* a record with a field without documentation, one with one line and one
\* with two lines has been rendered
C20_Witness ==
    /\ arg.kind = "render"
    /\ arg.item.inner.tag = "Struct"
    /\ arg.item.inner.ids = <<10, 11, 12>>
    /\ arg.krate.index = RenderIndex
    /\ out # NoOut
    /\ Len(FieldsSection(out[1])) = 2
    /\ FieldsSection(out[1])[2].items[3] = <<"bq", "a", ":", " ", "(", "i", "3", "2", ",", " ", "S", "t", "r", "i", "n", "g", ")", "bq", " ", "-", " ", "f", "i", "r", "s", "t">>

\* the bullet of the spec: "`name: type`", then, when the field has
\* documentation, an em-dash (the atom "em-dash") and its first line
SpecBullet(field) ==
    <<"bq">> \o field.name.val \o <<":", " ">> \o format_type(field.inner.type_)
    \o <<"bq">>
    \o (IF field.docs.some
        THEN <<" ", "em-dash", " ">> \o FirstLine(field.docs.val) ELSE <<>>)

\* C20 as stated: each field of a field-shaped record with at least one
\* field gives one bullet "`name: type`" followed, when the field has
\* documentation, by an em-dash and the first line of that documentation.
C20_EmDashBullets ==
    (arg.kind = "render" /\ arg.item.inner.tag = "Struct" /\ out # NoOut
     /\ arg.item.inner.ids = <<10, 11, 12>> /\ arg.krate.index = RenderIndex) =>
        /\ Len(FieldsSection(out[1])) = 2
        /\ FieldsSection(out[1])[2].items =
              [i \in 1..3 |-> SpecBullet(RenderIndex[arg.item.inner.ids[i]])]

(***************************************************************************)
(* The tools get_docs, get_module and list_crate_items (src/server.rs)     *)
(***************************************************************************)
\* ChildSummaries that lists only the children with a name of their own
ChildSummariesNamedOnly(krate, items) ==
    [i \in 1..Len(SelectSeq(items, LAMBDA id : Named(krate, id))) |->
        ItemSummary(
            krate.index[SelectSeq(items, LAMBDA id : Named(krate, id))[i]].name.val,
            get_item_kind(krate.index[SelectSeq(items, LAMBDA id : Named(krate, id))[i]]))]

\* lines 217-235: the named children of a module that are present; a
\* re-export without a name is listed under the name it introduces
RECURSIVE ChildSummaries(_, _)
ChildSummaries(krate, items) ==
    IF items = <<>> THEN <<>>
    ELSE IF Head(items) \notin DOMAIN krate.index
    THEN ChildSummaries(krate, Tail(items))
    ELSE IF krate.index[Head(items)].name.some
    THEN <<ItemSummary(krate.index[Head(items)].name.val,
                       get_item_kind(krate.index[Head(items)]))>>
         \o ChildSummaries(krate, Tail(items))
    ELSE IF krate.index[Head(items)].inner.tag = "Use"
    THEN <<ItemSummary(krate.index[Head(items)].inner.name,
                       get_item_kind(krate.index[Head(items)]))>>
         \o ChildSummaries(krate, Tail(items))
    ELSE ChildSummaries(krate, Tail(items))

\* get_docs, lines 148-163, on the loaded crate
DocsOf(loaded, path) ==
    IF path \notin DOMAIN loaded.path_to_id THEN Err("Item not found")
    ELSE IF loaded.path_to_id[path] \notin DOMAIN loaded.krate.index
    THEN Err("Item index missing")
    ELSE Ok(generate_item_markdown(loaded.krate.index[loaded.path_to_id[path]],
                                   loaded.krate))

\* get_module, lines 207-248, on the loaded crate
ModuleOf(loaded, path) ==
    IF path \notin DOMAIN loaded.path_to_id THEN Err("Module not found")
    ELSE IF loaded.path_to_id[path] \notin DOMAIN loaded.krate.index
    THEN Err("Item index missing")
    ELSE IF loaded.krate.index[loaded.path_to_id[path]].inner.tag = "Module"
    THEN Ok(ChildSummaries(loaded.krate,
                           loaded.krate.index[loaded.path_to_id[path]].inner.items))
    ELSE Err("Item is not a module")

\* get_docs, lines 143-163
GetDocs(t) ==
    /\ task[t].pc = "get_docs"
    /\ task' = [task EXCEPT
                  ![t].pc = "done",
                  ![t].ret =
                      IF ContainsKey(crates, CrateOf(task[t].req.path))
                      THEN DocsOf(crates[CrateOf(task[t].req.path)], task[t].req.path)
                      ELSE Err("Failed to load crate")]
    /\ UNCHANGED <<crates, files, lock, calls, stats, cfg, arg, out>>

\* get_module, lines 202-248
GetModule(t) ==
    /\ task[t].pc = "get_module"
    /\ task' = [task EXCEPT
                  ![t].pc = "done",
                  ![t].ret =
                      IF ContainsKey(crates, CrateOf(task[t].req.path))
                      THEN ModuleOf(crates[CrateOf(task[t].req.path)], task[t].req.path)
                      ELSE Err("Failed to load crate")]
    /\ UNCHANGED <<crates, files, lock, calls, stats, cfg, arg, out>>

\* list_crate_items, lines 88-124, on the loaded crate
RootItems(loaded) ==
    IF loaded.krate.root \notin DOMAIN loaded.krate.index
    THEN Err("Root item missing")
    ELSE IF loaded.krate.index[loaded.krate.root].inner.tag = "Module"
    THEN Ok(ChildSummaries(loaded.krate,
                           loaded.krate.index[loaded.krate.root].inner.items))
    ELSE Ok(<<>>)

\* list_crate_items, lines 83-124
ListCrateItems(t) ==
    /\ task[t].pc = "list_crate_items"
    /\ task' = [task EXCEPT
                  ![t].pc = "done",
                  ![t].ret =
                      IF ContainsKey(crates, task[t].req.name)
                      THEN RootItems(crates[task[t].req.name])
                      ELSE Err("Failed to load crate")]
    /\ UNCHANGED <<crates, files, lock, calls, stats, cfg, arg, out>>

\* the paths asked for: modules, a record, a field, a method, a function,
\* paths that are in no table
DocPaths ==
    {s_lib, JoinPath(s_lib, s_Point), JoinPath(JoinPath(s_lib, s_Point), s_x),
     JoinPath(JoinPath(s_lib, s_Point), s_new), JoinPath(s_lib, s_Zyx),
     JoinPath(s_lib, s_Vec), s_oth, JoinPath(s_oth, s_Point), JoinPath(s_oth, s_Zyx)}

\* one request at a time; target/doc is empty, or holds a file for "lib"
\* whose root module lists itself, or a file for "oth" with a re-export
InitDocs ==
    /\ crates = [n \in {} |-> 0]
    /\ files \in {[f \in FileNames |-> "absent"],
                  [f \in FileNames |-> IF f = JsonFile(s_lib) THEN "looped" ELSE "absent"],
                  [f \in FileNames |-> IF f = JsonFile(s_oth) THEN "shadowed" ELSE "absent"]}
    /\ lock = [f \in FileNames |-> 0]
    /\ task = [t \in Tasks |-> IdleTask]
    /\ calls = 0
    /\ stats = ZeroStats
    /\ cfg = [tasks |-> {1}, names |-> {}, queries |-> {}, rots |-> {0},
              paths |-> DocPaths, lists |-> {s_lib, s_oth}]
    /\ arg = NoArg
    /\ out = NoOut

NextDocs ==
    \E t \in Tasks :
        \/ Start(t)
        \/ ElCheck(t)
        \/ ElExists(t)
        \/ ElRead(t)
        \/ ElInsert(t)
        \/ GenLock(t)
        \/ GenCheck(t)
        \/ GenDone(t)
        \/ GetDocs(t)
        \/ GetModule(t)
        \/ ListCrateItems(t)

SpecDocs == InitDocs /\ [][NextDocs]_vars

\* the item a path resolves to in the cache
Resolves(path) ==
    /\ CrateOf(path) \in DOMAIN crates
    /\ path \in DOMAIN crates[CrateOf(path)].path_to_id
    /\ crates[CrateOf(path)].path_to_id[path] \in DOMAIN crates[CrateOf(path)].krate.index

Resolved(path) ==
    crates[CrateOf(path)].krate.index[crates[CrateOf(path)].path_to_id[path]]

\* the answers of get_docs and get_module that have returned
AnswersAreValues ==
    \A t \in cfg.tasks :
        (task[t].pc = "done" /\ task[t].req.op \in PathTools) =>
            /\ task[t].ret.st \in {"ok", "err"}
            /\ CrateOf(task[t].req.path) \notin DOMAIN crates =>
                  task[t].ret.st = "err" /\ task[t].ret.err \in LoadErrors
            /\ (CrateOf(task[t].req.path) \in DOMAIN crates
                /\ task[t].req.path \notin
                      DOMAIN crates[CrateOf(task[t].req.path)].path_to_id) =>
                  task[t].ret =
                      Err(IF task[t].req.op = "get_docs"
                          THEN "Item not found" ELSE "Module not found")
            /\ (task[t].req.op = "get_module" /\ Resolves(task[t].req.path)
                /\ Resolved(task[t].req.path).inner.tag # "Module") =>
                  task[t].ret = Err("Item is not a module")
            /\ task[t].req.op = "get_module" =>
                  (task[t].ret.st = "ok"
                      <=> (Resolves(task[t].req.path)
                           /\ Resolved(task[t].req.path).inner.tag = "Module"))

\* C14: get_module and get_docs return every failure as an error value and
\* never crash: a path absent from the loaded library's path table gives a
\* not-found error, get_module on a path that resolves to an item that is
\* not a module gives a not-a-module error, and get_module returns a list
\* only when the resolved item is a module.
C14_ErrorsNotCrashes ==
    /\ \A t \in cfg.tasks : task[t].pc # "crashed"
    /\ AnswersAreValues

\* a text: a sequence of characters
IsText(s) == DOMAIN s = 1..Len(s) /\ \A i \in 1..Len(s) : s[i] \in STRING

\* C21: rendering never fails: format_type returns a text for every type
\* expression and generate_item_markdown a document for every item, and
\* each shape format_type has no arm for (function pointer, qualified
\* path, pattern type, inferred type) renders as the single character "_",
\* also inside a wrapper.
C21_UnknownTypesArePlaceholders ==
    /\ (arg.kind = "type" /\ out # NoOut) =>
          /\ Len(out) = 1
          /\ IsText(out[1])
          /\ arg.ty \in UnknownTypes => out[1] = <<"_">>
          /\ (arg.ty.tag = "Slice" /\ arg.ty.type_ \in UnknownTypes) =>
                out[1] = <<"[", "_", "]">>
          /\ (arg.ty.tag = "RawPointer" /\ arg.ty.type_ \in UnknownTypes
              /\ arg.ty.is_mutable) =>
                out[1] = <<"*", "m", "u", "t", " ", "_">>
    /\ (arg.kind = "render" /\ out # NoOut) =>
          \A i \in 1..Len(out) :
              /\ Len(out[i]) >= 1
              /\ out[i][1].block = "header1"
              /\ IsText(out[i][1].text)
              /\ (arg.item.inner.tag = "Struct" /\ arg.item.inner.ids = <<13, 14, 99, 15, 16>>
                  /\ arg.krate.index = RenderIndex) =>
                    out[i][Len(out[i])].items[3] = <<"bq", "N", ":", " ", "_", "bq">>

\* a function pointer has been rendered
C21_Witness ==
    /\ arg.kind = "type"
    /\ arg.ty = OtherType("FunctionPointer")
    /\ out = << <<"_">> >>

(***************************************************************************)
(* ensure_loaded of names that differ in their separator                   *)
(***************************************************************************)
\* one request at a time, for the four spellings
InitNames ==
    /\ InitServer
    /\ cfg = [tasks |-> {1}, names |-> SeparatorNames, queries |-> {},
              rots |-> {0}, paths |-> {},
              lists |-> {}]

NextNames ==
    \E t \in Tasks :
        \/ Start(t)
        \/ ElCheck(t)
        \/ ElExists(t)
        \/ ElRead(t)
        \/ ElInsert(t)
        \/ GenLock(t)
        \/ GenCheck(t)
        \/ GenDone(t)

SpecNames == InitNames /\ [][NextNames]_vars

\* the known packages whose name equals name when hyphen and underscore
\* are treated as the same separator
SameBySeparator(name) == {k \in Packages : ReplaceHyphen(k) = ReplaceHyphen(name)}

\* task t is inside DocGenerator::generate
Generating(t) == task[t].pc \in {"gen_lock", "gen_check", "gen_running"}

\* C22 as stated: when ensure_loaded(name) must acquire and name equals no
\* known package name exactly but equals one after treating hyphen and
\* underscore as the same separator, in either direction, acquisition is
\* run for that package with its feature selection, and the entry is cached
\* under the requested name, not under the package's name.
C22_EitherDirection ==
    \A t \in cfg.tasks :
        (task[t].req.op = "ensure_loaded" /\ task[t].req.name \notin Packages
         /\ SameBySeparator(task[t].req.name) # {}) =>
            /\ Generating(t) =>
                  /\ task[t].gen.package_name \in SameBySeparator(task[t].req.name)
                  /\ task[t].gen.features = PackageFeatures(task[t].gen.package_name)
            /\ "insert" \in task[t].work =>
                  /\ task[t].req.name \in DOMAIN crates
                  /\ DOMAIN crates \ task[t].snap = {task[t].req.name}

\* what the lookup does: a name that is the spelling with underscores of a
\* known package name is resolved to that package and its feature
\* selection; a name that matches a package only the other way round
\* (hyphens where the package has underscores) is not resolved, and
\* acquisition is run for the name as requested, without a feature
\* selection; in both cases the entry is cached under the requested name
ResolutionAsCoded ==
    \A t \in cfg.tasks :
        (task[t].req.op = "ensure_loaded" /\ task[t].req.name \notin Packages) =>
            /\ (Generating(t) /\ \E k \in Packages : ReplaceHyphen(k) = task[t].req.name) =>
                  /\ ReplaceHyphen(task[t].gen.package_name) = task[t].req.name
                  /\ task[t].gen.package_name \in Packages
                  /\ task[t].gen.features = PackageFeatures(task[t].gen.package_name)
            /\ (Generating(t) /\ ~\E k \in Packages : ReplaceHyphen(k) = task[t].req.name) =>
                  task[t].gen = [package_name |-> task[t].req.name, features |-> None]
            /\ "insert" \in task[t].work =>
                  /\ task[t].req.name \in DOMAIN crates
                  /\ DOMAIN crates \ task[t].snap = {task[t].req.name}

\* key is name itself or starts with name followed by "::"
HasPrefix(key, name) ==
    \/ key = name
    \/ /\ Len(key) >= Len(name) + 2
       /\ SubSeq(key, 1, Len(name) + 2) = name \o Sep

\* ensure_loaded(name) has returned Ok after loading (not from the cache)
LoadedOnce(name) == stats[name].inserted >= 1

\* C26: two requested names that differ only in hyphen versus underscore
\* are read from the same artifact file but are distinct cache keys: once
\* ensure_loaded has succeeded for both, the cache holds one entry for each,
\* both entries hold the graph of the one file, the file has been parsed
\* and indexed once for each name, and every key of an entry's path table
\* is prefixed with the name that entry was requested under.
C26_SeparatorSpellingsAreDistinctKeys ==
    \A a \in cfg.names, b \in cfg.names :
        (a # b /\ ReplaceHyphen(a) = ReplaceHyphen(b)
         /\ LoadedOnce(a) /\ LoadedOnce(b)) =>
            /\ JsonFile(a) = JsonFile(b)
            /\ {a, b} \subseteq DOMAIN crates
            /\ crates[a].krate = Artifact(JsonFile(a))
            /\ crates[b].krate = crates[a].krate
            /\ \A n \in {a, b} :
                /\ stats[n].parsed = 1
                /\ stats[n].indexed = 1
                /\ DOMAIN crates[n].path_to_id = {n, JoinPath(n, s_new)}
                /\ \A key \in DOMAIN crates[n].path_to_id : HasPrefix(key, n)
            /\ DOMAIN crates[a].path_to_id \cap DOMAIN crates[b].path_to_id = {}

\* both spellings of foo-bar are loaded; the file was generated by the
\* first call only
C26_Witness ==
    /\ {Sp.foo_dash_bar, Sp.foo_bar} \subseteq DOMAIN crates
    /\ stats[Sp.foo_dash_bar].inserted = 1
    /\ stats[Sp.foo_bar].inserted = 1
    /\ stats[Sp.foo_dash_bar].acquired + stats[Sp.foo_bar].acquired = 1
    /\ task[1].pc = "done"
    /\ task[1].work = {"read", "parse", "index", "insert"}

(***************************************************************************)
(* Properties of the path tables in the cache                              *)
(***************************************************************************)
\* C25: in every entry of the cache, each key of the path table is the
\* entry's name or starts with that name followed by "::", and each value
\* is a key of the item index of the entry's own graph; so no match of a
\* search gets the kind "unknown".
C25_PathTablesAreSound ==
    /\ \A n \in DOMAIN crates :
        \A key \in DOMAIN crates[n].path_to_id :
            /\ HasPrefix(key, n)
            /\ crates[n].path_to_id[key] \in DOMAIN crates[n].krate.index
            /\ KindOf(crates[n], crates[n].path_to_id[key]) # "unknown"
    /\ \A t \in cfg.tasks :
        SearchOk(t) =>
            \A i \in 1..Len(task[t].ret.list) :
                task[t].ret.list[i].kind # "unknown"

\* lib is cached with the paths of its record, the record's fields and the
\* member of its implementation block, its dangling child left out, and a
\* search has returned matches from it
C25_Witness ==
    /\ s_lib \in DOMAIN crates
    /\ 7 \notin DOMAIN crates[s_lib].krate.index
    /\ Cardinality(DOMAIN crates[s_lib].path_to_id) = 5
    /\ \E t \in cfg.tasks :
        /\ SearchOk(t)
        /\ task[t].searched = {s_lib}
        /\ Len(task[t].ret.list) >= 1

(***************************************************************************)
(* Properties of DocGenerator::generate                                    *)
(***************************************************************************)
\* task t is running `cargo rustdoc` for the artifact file f
RunsCommand(t, f) ==
    task[t].pc = "gen_running" /\ LockFile(task[t].gen.package_name) = f

\* task t holds the lock of f inside generate, between lock_exclusive and
\* the end of the call
HoldsInside(t, f) ==
    /\ task[t].pc \in {"gen_check", "gen_running"}
    /\ LockFile(task[t].gen.package_name) = f

\* a call that holds the lock and finds the artifact returns to its caller
\* in one step, with the lock released and no file written
SkipsWhenPresent(t) ==
    (task[t].pc = "gen_check"
     /\ files[LockFile(task[t].gen.package_name)] # "absent"
     /\ task'[t] # task[t]) =>
        /\ task'[t].pc = "el_read"
        /\ task'[t].work = task[t].work
        /\ lock'[LockFile(task[t].gen.package_name)] = 0
        /\ files' = files

\* C23: at any time at most one call runs the generation command for one
\* package; a call that finds the artifact present after it has taken the
\* lock returns without running the command; and the lock is held only by
\* a call that is inside generate, so every exit (success, failed command,
\* missing output, command not started) has released it.
C23_GenerateExclusive ==
    /\ [](\A f \in FileNames :
            /\ Cardinality({t \in cfg.tasks : RunsCommand(t, f)}) <= 1
            /\ \A t \in cfg.tasks : RunsCommand(t, f) => lock[f] = t
            /\ lock[f] # 0 => HoldsInside(lock[f], f))
    /\ [][\A t \in cfg.tasks : SkipsWhenPresent(t)]_vars

\* two calls for lib both found the file missing; one generated it, and the
\* other, having taken the lock afterwards, left generate without running
\* the command
C23_Witness ==
    \E t \in cfg.tasks, u \in cfg.tasks :
        /\ t # u
        /\ "acquire" \in task[u].work
        /\ LoadName(task[u].req) = s_lib
        /\ task[t].pc = "el_read"
        /\ task[t].gen.package_name = s_lib
        /\ "acquire" \notin task[t].work
        /\ lock[s_lib] = 0

(***************************************************************************)
(* The indexer on records and sum types whose members share names          *)
(***************************************************************************)
\* field or variant lists of Point: x (2), new (3) and a second x (4)
CollideMembers == {<<>>, <<2>>, <<3>>, <<2, 3>>, <<3, 2>>, <<2, 4>>, <<4, 3, 2>>}

\* impls lists of Point: the block 10 with new (12); the block 11 with new
\* (13), an unnamed member (15) and x (14); a dangling identifier (9); an
\* identifier of an item that is no implementation block (2)
CollideImpls == {<<>>, <<10>>, <<11>>, <<10, 11>>, <<11, 10>>, <<9, 10>>, <<2, 11>>}

CollideKinds == {"Plain", "Tuple", "Enum"}

\* Point as a record with a field list, as a tuple record (with one
\* stripped position) or as a sum type
CollideInner(kind, members, impls) ==
    IF kind = "Enum" THEN Enum(members, impls)
    ELSE IF kind = "Tuple"
    THEN StructTuple(<<None>> \o [i \in 1..Len(members) |-> Some(members[i])], impls)
    ELSE StructPlain(members, impls)

CollideMember(kind, id, name) ==
    Item(id, Some(name),
         IF kind = "Enum" THEN Variant("Plain", <<>>)
         ELSE StructField(Primitive(Str.i32)))

\* a graph named lib whose root lists Point
CollideGraph(kind, members, impls) ==
    [root |-> 0, order |-> FirstOrder,
     index |->
        (0 :> Item(0, Some(s_lib), Module(<<1>>)) @@
         1 :> Item(1, Some(s_Point), CollideInner(kind, members, impls)) @@
         2 :> CollideMember(kind, 2, s_x) @@
         3 :> CollideMember(kind, 3, s_new) @@
         4 :> CollideMember(kind, 4, s_x) @@
         10 :> Item(10, None, Impl(<<12>>)) @@
         11 :> Item(11, None, Impl(<<13, 15, 14>>)) @@
         12 :> Item(12, Some(s_new), PlainFn) @@
         13 :> Item(13, Some(s_new), PlainFn) @@
         14 :> Item(14, Some(s_x), PlainFn) @@
         15 :> Item(15, None, PlainFn))]

CollideGraphs ==
    {CollideGraph(kind, members, impls) :
        kind \in CollideKinds, members \in CollideMembers, impls \in CollideImpls}

InitCollide ==
    /\ InitState
    /\ cfg = [tasks |-> {}, names |-> {}, queries |-> {}, rots |-> {0}]
    /\ arg \in [kind : {"index"}, krate : CollideGraphs, crate_name : {s_lib}]
    /\ out = NoOut

NextCollide == BuildPathMap

SpecCollide == InitCollide /\ [][NextCollide]_vars

\* the field or variant list of a record or sum type as it stands in the
\* graph, one optional identifier per position
MemberList(inner) ==
    IF inner.tag = "Enum" THEN [i \in 1..Len(inner.variants) |-> Some(inner.variants[i])]
    ELSE IF inner.kind = "Tuple" THEN inner.ids
    ELSE [i \in 1..Len(inner.ids) |-> Some(inner.ids[i])]

\* the writes below the path of a record or sum type, each with its place
\* in the visit order: the named members at their list position, then the
\* named members of the k-th entry of the impls list at 10 * k + position
Writes(krate, inner) ==
    {[rank |-> i, id |-> MemberList(inner)[i].val] :
        i \in {i \in 1..Len(MemberList(inner)) :
                /\ MemberList(inner)[i].some
                /\ Named(krate, MemberList(inner)[i].val)}}
    \cup
    {[rank |-> 10 * p[1] + p[2], id |-> krate.index[inner.impls[p[1]]].inner.items[p[2]]] :
        p \in {p \in (1..Len(inner.impls)) \X (1..3) :
                /\ inner.impls[p[1]] \in DOMAIN krate.index
                /\ krate.index[inner.impls[p[1]]].inner.tag = "Impl"
                /\ p[2] <= Len(krate.index[inner.impls[p[1]]].inner.items)
                /\ Named(krate, krate.index[inner.impls[p[1]]].inner.items[p[2]])}}

\* the last of the writes that carry the name of w
LastWrite(krate, writes, w) ==
    CHOOSE v \in writes :
        /\ krate.index[v.id].name = krate.index[w.id].name
        /\ \A u \in writes :
            krate.index[u.id].name = krate.index[w.id].name => u.rank <= v.rank

PointPath == JoinPath(s_lib, s_Point)

\* C24: for a record or sum type the table holds the type's own path and,
\* for every name carried by a named field, variant or member of one of its
\* implementation blocks, prefix::name mapped to the item written last in
\* visit order: fields or variants in list order, then the members of the
\* blocks in impls-list order and member order. So a member of a block wins
\* over a field or variant of the same name, and of same-named members of
\* several blocks the one of the block listed last is kept.
C24_LastWriteWins ==
    (arg.kind = "index" /\ out # NoOut) =>
        \E krate \in {arg.krate} :
        \E writes \in {Writes(krate, krate.index[1].inner)} :
        \E map \in {out[1].map} :
            /\ ~out[1].overflow
            /\ DOMAIN map = {s_lib, PointPath}
                    \cup {JoinPath(PointPath, krate.index[w.id].name.val) : w \in writes}
            /\ map[PointPath] = 1
            /\ \A w \in writes :
                /\ map[JoinPath(PointPath, krate.index[w.id].name.val)]
                        = LastWrite(krate, writes, w).id
                /\ (\E u \in writes :
                        /\ u.rank >= 10
                        /\ krate.index[u.id].name = krate.index[w.id].name)
                    => map[JoinPath(PointPath, krate.index[w.id].name.val)] \in 12..14
            /\ krate.index[1].inner.impls = <<10, 11>> => map[JoinPath(PointPath, s_new)] = 13
            /\ krate.index[1].inner.impls = <<11, 10>> => map[JoinPath(PointPath, s_new)] = 12

\* Point with the fields new and x and the blocks 10 and 11: both names map
\* to the members of block 11
C24_Witness ==
    /\ arg.kind = "index"
    /\ arg.krate = CollideGraph("Plain", <<3, 2>>, <<10, 11>>)
    /\ out # NoOut
    /\ out[1].map[JoinPath(PointPath, s_new)] = 13
    /\ out[1].map[JoinPath(PointPath, s_x)] = 14

(***************************************************************************)
(* Properties of the tools that look into a loaded library                 *)
(***************************************************************************)
\* the errors of a lookup in a loaded library
LookupErrors ==
    {"Item not found", "Module not found", "Item is not a module",
     "Item index missing", "Root item missing"}

\* C27: get_docs, get_module and list_crate_items load the library named by
\* the request (for a path, the text before the first "::") before they
\* look anything up: a lookup starts only with that library in the cache,
\* a request that returns item-not-found, module-not-found or not-a-module
\* leaves the library in the cache, and a request whose library is not in
\* the cache afterwards has returned a load failure and has left the cache
\* as it was.
C27_LoadBeforeLookup ==
    \A t \in cfg.tasks :
        /\ task[t].pc \in LookupTools =>
              /\ LoadName(task[t].req) \in DOMAIN crates
              /\ task[t].hit \/ "insert" \in task[t].work
        /\ (Done(t) /\ task[t].req.op \in LookupTools) =>
              /\ (task[t].ret.st = "ok" \/ task[t].ret.err \in LookupErrors) =>
                    /\ LoadName(task[t].req) \in DOMAIN crates
                    /\ DOMAIN crates = task[t].snap \cup {LoadName(task[t].req)}
              /\ LoadName(task[t].req) \notin DOMAIN crates =>
                    /\ task[t].ret.st = "err"
                    /\ task[t].ret.err \in LoadErrors
                    /\ DOMAIN crates = task[t].snap
              /\ (task[t].ret.st = "err" /\ task[t].ret.err \in LoadErrors) =>
                    DOMAIN crates = task[t].snap
              /\ task[t].ret.st = "err" =>
                    task[t].ret.err \in LookupErrors \cup LoadErrors

\* get_docs(oth::Zyx) has brought oth into the cache and then returned
\* item-not-found
C27_Witness ==
    \E t \in cfg.tasks :
        /\ Done(t)
        /\ LoadName(task[t].req) \notin task[t].snap
        /\ LoadName(task[t].req) \in DOMAIN crates
        /\ "insert" \in task[t].work
        /\ task[t].req.op = "get_docs"
        /\ task[t].req.path = JoinPath(s_oth, s_Zyx)
        /\ task[t].ret = Err("Item not found")

\* the child id of a module is listed: it is in the index and has a name of
\* its own or is a re-export
Shown(krate, id) ==
    /\ id \in DOMAIN krate.index
    /\ krate.index[id].name.some \/ krate.index[id].inner.tag = "Use"

\* the name a listed child is listed under
ShownName(item) == IF item.name.some THEN item.name.val ELSE item.inner.name

\* the path of the module a request lists, and the module item itself
ListedPath(req) == IF req.op = "list_crate_items" THEN req.name ELSE req.path

ListedModule(loaded, req) ==
    IF req.op = "list_crate_items" THEN loaded.krate.index[loaded.krate.root]
    ELSE loaded.krate.index[loaded.path_to_id[req.path]]

\* the child at position i of module m has its own name n
OwnName(krate, m, i, n) ==
    /\ Named(krate, m.inner.items[i])
    /\ krate.index[m.inner.items[i]].name.val = n

\* the answer `list` of a listing of module m at path P: the listed
\* children in child order under their names; a child with its own name
\* has its path in the table; a re-export without a name is the value of
\* no key, and the path under its re-export name is a key only when a
\* sibling has that name as its own
ListingAndTable(loaded, m, P, list) ==
    \E shown \in {SelectSeq(m.inner.items, LAMBDA id : Shown(loaded.krate, id))} :
        /\ Len(list) = Len(shown)
        /\ \A i \in 1..Len(shown) :
            \E child \in {loaded.krate.index[shown[i]]} :
                /\ list[i] = ItemSummary(ShownName(child), get_item_kind(child))
                /\ child.name.some =>
                      JoinPath(P, child.name.val) \in DOMAIN loaded.path_to_id
                /\ ~child.name.some =>
                      /\ \A key \in DOMAIN loaded.path_to_id :
                            loaded.path_to_id[key] # shown[i]
                      /\ JoinPath(P, child.inner.name) \in DOMAIN loaded.path_to_id =>
                            \E j \in 1..Len(m.inner.items) :
                                OwnName(loaded.krate, m, j, child.inner.name)

\* path is P::n for a re-export without a name listed as n under the
\* module at P, and no child of that module has n as its own name
OnlyReexported(loaded, path) ==
    \E P \in DOMAIN loaded.path_to_id :
        /\ loaded.path_to_id[P] \in DOMAIN loaded.krate.index
        /\ loaded.krate.index[loaded.path_to_id[P]].inner.tag = "Module"
        /\ \E m \in {loaded.krate.index[loaded.path_to_id[P]]} :
            /\ \E i \in 1..Len(m.inner.items) :
                /\ Shown(loaded.krate, m.inner.items[i])
                /\ ~loaded.krate.index[m.inner.items[i]].name.some
                /\ path = JoinPath(P, loaded.krate.index[m.inner.items[i]].inner.name)
            /\ ~\E j \in 1..Len(m.inner.items) :
                /\ Named(loaded.krate, m.inner.items[j])
                /\ path = JoinPath(P, loaded.krate.index[m.inner.items[j]].name.val)

\* C28: list_crate_items and get_module list a child that has no name of
\* its own but is a re-export under its re-export name, in child order,
\* while the indexer skips it: the table has no key from that child, so
\* get_docs of P::n returns item-not-found unless a sibling claims the
\* path; and for every listed child with its own name n, P::n is a key.
C28_ReexportsListedNotIndexed ==
    \A t \in cfg.tasks :
        /\ (Done(t) /\ task[t].req.op \in {"get_module", "list_crate_items"}
            /\ task[t].ret.st = "ok") =>
              ListingAndTable(crates[LoadName(task[t].req)],
                              ListedModule(crates[LoadName(task[t].req)], task[t].req),
                              ListedPath(task[t].req), task[t].ret.list)
        /\ (Done(t) /\ task[t].req.op = "get_docs"
            /\ LoadName(task[t].req) \in DOMAIN crates
            /\ OnlyReexported(crates[LoadName(task[t].req)], task[t].req.path)) =>
              task[t].ret = Err("Item not found")

\* the root of lib is listed as Point and the re-export Vec, and the table
\* has lib::Point but not lib::Vec
C28_Witness ==
    \E t \in cfg.tasks :
        /\ Done(t)
        /\ task[t].req.op = "list_crate_items"
        /\ task[t].req.name = s_lib
        /\ task[t].ret = Ok(<<ItemSummary(s_Point, "struct"), ItemSummary(s_Vec, "import")>>)
        /\ JoinPath(s_lib, s_Point) \in DOMAIN crates[s_lib].path_to_id
        /\ JoinPath(s_lib, s_Vec) \notin DOMAIN crates[s_lib].path_to_id
        /\ OnlyReexported(crates[s_lib], JoinPath(s_lib, s_Vec))
====
